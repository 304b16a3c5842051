---------------------------- MODULE InputProofs ----------------------------
(***************************************************************************)
(* From the bytes that a connection reads to the requests that an HTTP     *)
(* server handles: what is read from a Buffer is what was put in, for any  *)
(* sizes and any bytes; the HTTP parser finds the requests of a stream     *)
(* however it is cut, and the server answers them in order, for any        *)
(* streams.                                                                *)
(***************************************************************************)
EXTENDS Buffer, HttpServer, SequenceTheorems, WellFoundedInduction, TLAPS

-----------------------------------------------------------------------------
(* Buffer                                                                  *)

\* A vector b of sz bytes has exactly the bytes c between the indexes r and w.
Represents(sz, b, r, w, c) ==
    /\ sz \in Nat /\ b \in [0..sz - 1 -> Byte]
    /\ r \in Nat /\ w \in Nat /\ r <= w /\ w <= sz /\ kCheapPrependSize <= sz
    /\ c \in Seq(Byte) /\ Len(c) = w - r
    /\ \A i \in 1..Len(c) : c[i] = b[r + i - 1]

VectorOK(v, c) ==
    /\ v = [size |-> v.size, bytes |-> v.bytes, read |-> v.read, write |-> v.write]
    /\ Represents(v.size, v.bytes, v.read, v.write, c)

\* ReadsBack in these words: the inductive invariant.
BufferInv ==
    /\ Represents(size, buffer_, readIndex_, writeIndex_, content)
    /\ failed \in {"no", "ensureWritable", "overflow"}

\* BufferInv is enough for ReadsBack.
LEMMA ReadsBackIs == BufferInv => ReadsBack
<1> DEFINE n == writeIndex_ - readIndex_
<1>1. readableBytes(This) = n
  BY DEF readableBytes, This
<1>3. ASSUME BufferInv
      PROVE ReadsBack
  <2>1. /\ content \in Seq(Byte) /\ Len(content) = n
        /\ \A i \in 1..Len(content) : content[i] = buffer_[readIndex_ + i - 1]
    BY <1>3, Zenon DEF BufferInv, Represents
  <2>2. content = [i \in 1..n |-> content[i]]
    BY <2>1
  <2>3. content = [i \in 1..n |-> buffer_[readIndex_ + i - 1]]
    BY <2>1, <2>2
  <2>4. BufferTypeOK
    BY <1>3, Zenon DEF BufferInv, BufferTypeOK, Represents
  <2> QED
    BY <1>1, <2>3, <2>4, Zenon DEF ReadsBack
<1> QED
  BY <1>3

\* makeSpace, when it moves the bytes: they are the same ones, unless they would run
\* over the end.
LEMMA MovedKeeps ==
    ASSUME NEW v, NEW c, VectorOK(v, c), Moved(v).write <= v.size
    PROVE VectorOK(Moved(v), c)
<1>1. PICK sz, b, r, w : /\ v = [size |-> sz, bytes |-> b, read |-> r, write |-> w]
                         /\ Represents(sz, b, r, w, c)
  BY Zenon DEF VectorOK
<1> DEFINE k == kCheapPrependSize
           n == w - r
           m == [i \in 0..sz - 1 |-> IF i \in k..(k + n - 1) THEN b[r + i - k] ELSE b[i]]
<1>2. /\ sz \in Nat /\ b \in [0..sz - 1 -> Byte] /\ r \in Nat /\ w \in Nat /\ r <= w /\ w <= sz
      /\ k <= sz /\ c \in Seq(Byte) /\ Len(c) = w - r /\ k \in Nat
      /\ \A i \in 1..Len(c) : c[i] = b[r + i - 1]
  BY <1>1, SizesAssumption, Zenon DEF Represents
<1>3. DOMAIN b = 0..sz - 1
  BY <1>2
<1>4. Moved(v) = [size |-> sz, bytes |-> m, read |-> k, write |-> k + n]
  <2>1. v.size = sz /\ v.bytes = b /\ v.read = r /\ v.write = w /\ readableBytes(v) = n
    BY <1>1 DEF readableBytes
  <2>2. Moved(v) = [v EXCEPT !.bytes = m, !.read = k, !.write = k + n]
    BY <1>3, <2>1, Zenon DEF Moved
  <2> HIDE DEF m, n, k
  <2> QED
    BY <1>1, <2>2
<1>5. k + n <= sz
  BY <1>1, <1>4
<1>6. m \in [0..sz - 1 -> Byte]
  <2> SUFFICES ASSUME NEW i \in 0..sz - 1
               PROVE (IF i \in k..(k + n - 1) THEN b[r + i - k] ELSE b[i]) \in Byte
    OBVIOUS
  <2>1. CASE i \in k..(k + n - 1)
    <3>1. r + i - k \in 0..sz - 1
      BY <1>2, <2>1
    <3> QED
      BY <1>2, <2>1, <3>1
  <2> QED
    BY <1>2, <2>1
<1>7. \A i \in 1..Len(c) : c[i] = m[k + i - 1]
  <2> SUFFICES ASSUME NEW i \in 1..Len(c)
               PROVE c[i] = m[k + i - 1]
    OBVIOUS
  <2>1. k + i - 1 \in 0..sz - 1 /\ k + i - 1 \in k..(k + n - 1) /\ r + (k + i - 1) - k = r + i - 1
    BY <1>2, <1>5
  <2>2. m[k + i - 1] = b[r + i - 1]
    BY <2>1
  <2> QED
    BY <1>2, <2>2
<1> HIDE DEF m
<1>8. Represents(sz, m, k, k + n, c)
  <2>1. k + n \in Nat /\ k <= k + n /\ Len(c) = (k + n) - k
    BY <1>2
  <2> QED
    BY <1>2, <1>5, <1>6, <1>7, <2>1, Zenon DEF Represents
<1> QED
  BY <1>4, <1>8 DEF VectorOK

\* makeSpace, when it resizes the vector.
LEMMA ResizedKeeps ==
    ASSUME NEW v, NEW c, VectorOK(v, c), NEW len \in Nat, writableBytes(v) < len
    PROVE VectorOK(Resized(v, len), c)
<1>1. PICK sz, b, r, w : /\ v = [size |-> sz, bytes |-> b, read |-> r, write |-> w]
                         /\ Represents(sz, b, r, w, c)
  BY Zenon DEF VectorOK
<1> DEFINE m == [i \in 0..(w + len - 1) |-> IF i < sz THEN b[i] ELSE 0]
<1>2. /\ sz \in Nat /\ b \in [0..sz - 1 -> Byte] /\ r \in Nat /\ w \in Nat /\ r <= w /\ w <= sz
      /\ kCheapPrependSize <= sz /\ c \in Seq(Byte) /\ Len(c) = w - r /\ kCheapPrependSize \in Nat
      /\ \A i \in 1..Len(c) : c[i] = b[r + i - 1]
  BY <1>1, SizesAssumption, Zenon DEF Represents
<1>3. sz - w < len
  BY <1>1 DEF writableBytes
<1>4. Resized(v, len) = [size |-> w + len, bytes |-> m, read |-> r, write |-> w]
  <2>1. v.size = sz /\ v.bytes = b /\ v.write = w
    BY <1>1
  <2>2. Resized(v, len) = [v EXCEPT !.size = w + len, !.bytes = m]
    BY <2>1, Zenon DEF Resized
  <2> HIDE DEF m
  <2> QED
    BY <1>1, <2>2
<1>5. m \in [0..(w + len) - 1 -> Byte]
  <2>1. ASSUME NEW i \in 0..(w + len - 1)
        PROVE (IF i < sz THEN b[i] ELSE 0) \in Byte
    <3>1. i < sz => i \in 0..sz - 1
      BY <1>2
    <3> QED
      BY <1>2, <3>1, ByteAssumption
  <2>2. [i \in 0..(w + len - 1) |-> IF i < sz THEN b[i] ELSE 0] \in [0..(w + len - 1) -> Byte]
    BY <2>1
  <2>3. w + len - 1 = (w + len) - 1
    BY <1>2
  <2> QED
    BY <2>2, <2>3, Zenon
<1>6. \A i \in 1..Len(c) : c[i] = m[r + i - 1]
  <2> SUFFICES ASSUME NEW i \in 1..Len(c)
               PROVE c[i] = m[r + i - 1]
    OBVIOUS
  <2>1. r + i - 1 \in 0..(w + len - 1) /\ r + i - 1 < sz
    BY <1>2
  <2>2. m[r + i - 1] = b[r + i - 1]
    BY <2>1
  <2> QED
    BY <1>2, <2>2
<1> HIDE DEF m
<1>7. Represents(w + len, m, r, w, c)
  <2>1. w + len \in Nat /\ w <= w + len /\ kCheapPrependSize <= w + len
    BY <1>2, <1>3
  <2> QED
    BY <1>2, <1>5, <1>6, <2>1, Zenon DEF Represents
<1> QED
  BY <1>4, <1>7 DEF VectorOK

\* ensureWritableBytes leaves the readable bytes alone.
LEMMA EnsureKeeps ==
    ASSUME NEW v, NEW c, VectorOK(v, c), NEW len \in Nat,
           ensureWritableBytes(v, len).write <= ensureWritableBytes(v, len).size
    PROVE VectorOK(ensureWritableBytes(v, len), c)
<1>1. CASE ~(writableBytes(v) < len)
  BY <1>1, Zenon DEF ensureWritableBytes
<1>2. CASE writableBytes(v) < len /\ writableBytes(v) + kCheapPrependSize >= len
  <2>1. ensureWritableBytes(v, len) = Moved(v)
    BY <1>2, Zenon DEF ensureWritableBytes, makeSpace
  <2>2. Moved(v).size = v.size
    BY DEF VectorOK, Moved
  <2> QED
    BY <2>1, <2>2, MovedKeeps
<1>3. CASE writableBytes(v) < len /\ ~(writableBytes(v) + kCheapPrependSize >= len)
  <2>1. ensureWritableBytes(v, len) = Resized(v, len)
    BY <1>3, Zenon DEF ensureWritableBytes, makeSpace
  <2> QED
    BY <1>3, <2>1, ResizedKeeps
<1> QED
  BY <1>1, <1>2, <1>3

\* append's copy and hasWritten.
LEMMA PutAtEnd ==
    ASSUME NEW v, NEW c, VectorOK(v, c), NEW data \in Seq(Byte), writableBytes(v) >= Len(data)
    PROVE Represents(v.size, Put(v, v.write, data), v.read, v.write + Len(data), c \o data)
<1>1. PICK sz, b, r, w : /\ v = [size |-> sz, bytes |-> b, read |-> r, write |-> w]
                         /\ Represents(sz, b, r, w, c)
  BY Zenon DEF VectorOK
<1>2. /\ sz \in Nat /\ b \in [0..sz - 1 -> Byte] /\ r \in Nat /\ w \in Nat /\ r <= w /\ w <= sz
      /\ kCheapPrependSize <= sz /\ c \in Seq(Byte) /\ Len(c) = w - r
      /\ \A i \in 1..Len(c) : c[i] = b[r + i - 1]
  BY <1>1, Zenon DEF Represents
<1> DEFINE l == Len(data)
           m == [i \in 0..sz - 1 |-> IF i \in w..(w + l - 1) THEN data[i - w + 1] ELSE b[i]]
<1>3. /\ v.size = sz /\ v.read = r /\ v.write = w /\ Put(v, v.write, data) = m
      /\ sz - w >= l /\ l \in Nat
  <2>1. DOMAIN b = 0..sz - 1
    BY <1>2
  <2> QED
    BY <1>1, <2>1 DEF Put, writableBytes
<1>4. m \in [0..sz - 1 -> Byte]
  <2> SUFFICES ASSUME NEW i \in 0..sz - 1
               PROVE (IF i \in w..(w + l - 1) THEN data[i - w + 1] ELSE b[i]) \in Byte
    OBVIOUS
  <2>1. CASE i \in w..(w + l - 1)
    <3>1. i - w + 1 \in 1..Len(data)
      BY <1>2, <1>3, <2>1
    <3>2. data[i - w + 1] \in Byte
      BY <3>1, ElementOfSeq
    <3> QED
      BY <2>1, <3>2
  <2> QED
    BY <1>2, <2>1
<1>5. /\ c \o data \in Seq(Byte) /\ Len(c \o data) = Len(c) + l
      /\ \A i \in 1..Len(c) + l : (c \o data)[i] = IF i <= Len(c) THEN c[i] ELSE data[i - Len(c)]
  BY <1>2, ConcatProperties
<1>6. \A i \in 1..Len(c) + l : (c \o data)[i] = m[r + i - 1]
  <2> SUFFICES ASSUME NEW i \in 1..Len(c) + l
               PROVE (c \o data)[i] = m[r + i - 1]
    OBVIOUS
  <2>0. Len(c) \in Nat /\ i \in Nat
    BY <1>2, <1>3
  <2>1. r + i - 1 \in 0..sz - 1
    BY <1>2, <1>3, <2>0
  <2>2. CASE i <= Len(c)
    <3>1. r + i - 1 \notin w..(w + l - 1) /\ i \in 1..Len(c)
      BY <1>2, <1>3, <2>0, <2>2, SMTT(30)
    <3>2. m[r + i - 1] = b[r + i - 1]
      BY <2>1, <3>1
    <3> QED
      BY <1>2, <1>5, <2>2, <3>1, <3>2
  <2>3. CASE ~(i <= Len(c))
    <3>1. r + i - 1 \in w..(w + l - 1) /\ (r + i - 1) - w + 1 = i - Len(c)
      BY <1>2, <1>3, <2>0, <2>3
    <3>2. m[r + i - 1] = data[i - Len(c)]
      BY <2>1, <3>1
    <3> QED
      BY <1>5, <2>3, <3>2
  <2> QED
    BY <2>2, <2>3
<1> HIDE DEF m
<1>7. Represents(sz, m, r, w + l, c \o data)
  <2>1. w + l \in Nat /\ r <= w + l /\ w + l <= sz /\ Len(c \o data) = (w + l) - r
    BY <1>2, <1>3, <1>5
  <2> QED
    BY <1>2, <1>4, <1>5, <1>6, <2>1, Zenon DEF Represents
<1> QED
  BY <1>3, <1>7, Zenon

\* append to a vector that holds c, with or without its failed assert (Buffer.h:170).
LEMMA AppendToKeeps ==
    ASSUME BufferInv, NEW v, NEW c, VectorOK(v, c), NEW data \in Seq(Byte), NEW all,
           AppendTo(v, data, all), c \o data = content \o all
    PROVE BufferInv'
<1>1. CASE Stop("overflow") \/ Stop("ensureWritable")
  <2>1. /\ size' = size /\ buffer_' = buffer_ /\ readIndex_' = readIndex_
        /\ writeIndex_' = writeIndex_ /\ content' = content
        /\ failed' \in {"no", "ensureWritable", "overflow"}
    BY <1>1 DEF Stop
  <2> QED
    BY <2>1, Zenon DEF BufferInv
<1>2. PICK s : s = ensureWritableBytes(v, Len(data))
  OBVIOUS
<1>3. CASE /\ s.write <= s.size /\ writableBytes(s) >= Len(data)
           /\ size' = s.size /\ buffer_' = Put(s, s.write, data)
           /\ readIndex_' = s.read /\ writeIndex_' = s.write + Len(data)
           /\ content' = content \o all /\ failed' = failed
  <2>1. VectorOK(s, c)
    BY <1>2, <1>3, EnsureKeeps, LenProperties
  <2>2. Represents(s.size, Put(s, s.write, data), s.read, s.write + Len(data), c \o data)
    BY <1>3, <2>1, PutAtEnd
  <2>3. Represents(size', buffer_', readIndex_', writeIndex_', content')
    BY <1>3, <2>2, Zenon
  <2> QED
    BY <1>3, <2>3, Zenon DEF BufferInv
<1> QED
  BY <1>1, <1>2, <1>3, Zenon DEF AppendTo

\* The data of an operation is a sequence of bytes.
LEMMA DataIsSeq ==
    ASSUME NEW data \in Data
    PROVE data \in Seq(Byte)
<1>1. PICK n \in 1..MaxLen : data \in [1..n -> Byte]
  BY DEF Data
<1> QED
  BY <1>1, SeqDef, SizesAssumption

\* The members, as the operations see them.
LEMMA ThisOK ==
    ASSUME BufferInv
    PROVE VectorOK(This, content)
BY DEF BufferInv, This, VectorOK

\* append adds its bytes behind those that are there.
LEMMA AppendKeeps ==
    ASSUME BufferInv, NEW data \in Data, append(data)
    PROVE BufferInv'
<1>1. data \in Seq(Byte)
  BY DataIsSeq
<1>2. VectorOK(This, content)
  BY ThisOK
<1> QED
  BY <1>1, <1>2, AppendToKeeps, Zenon DEF append

\* readv fills what is writable, and the rest is appended.
LEMMA ReadFdKeeps ==
    ASSUME BufferInv, NEW data \in Data, readFd(data)
    PROVE BufferInv'
<1>1. data \in Seq(Byte) /\ VectorOK(This, content)
  BY DataIsSeq, ThisOK
<1>2. PICK n : n = writableBytes(This)
  OBVIOUS
<1>3. CASE Len(data) <= n
  BY <1>1, <1>2, <1>3, AppendToKeeps, Zenon DEF readFd
<1>4. CASE ~(Len(data) <= n)
  <2> DEFINE d == SubSeq(data, 1, n)
             e == SubSeq(data, n + 1, Len(data))
             v == [This EXCEPT !.bytes = Put(This, writeIndex_, d), !.write = size]
  <2>1. AppendTo(v, e, data)
    BY <1>2, <1>4, Zenon DEF readFd
  <2>2. /\ size \in Nat /\ writeIndex_ \in Nat /\ writeIndex_ <= size /\ content \in Seq(Byte)
    BY Zenon DEF BufferInv, Represents
  <2>3. n = size - writeIndex_
    BY <1>2 DEF writableBytes, This
  <2>4. n \in Nat /\ Len(data) \in Nat /\ n < Len(data)
    <3>1. Len(data) \in Nat
      BY <1>1, LenProperties
    <3> QED
      BY <1>4, <2>2, <2>3, <3>1
  <2>5. d \in Seq(Byte) /\ Len(d) = n
    BY <1>1, <2>4
  <2>6. e \in Seq(Byte)
    BY <1>1, <2>4
  <2>7. d \o e = data
    <3>1. 1 \in 1..Len(data) + 1 /\ n \in 1 - 1..Len(data) /\ Len(data) \in n..Len(data)
      BY <2>4
    <3>2. d \o e = SubSeq(data, 1, Len(data))
      BY <1>1, <3>1, ConcatAdjacentSubSeq
    <3> QED
      BY <1>1, <3>2, SubSeqFull
  <2> HIDE DEF d, e
  <2>8. (content \o d) \o e = content \o data
    <3>1. (content \o d) \o e = content \o (d \o e)
      BY <2>2, <2>5, <2>6, ConcatAssociative, SMTT(30)
    <3> QED
      BY <2>7, <3>1
  <2>9. VectorOK(v, content \o d)
    <3>1. writableBytes(This) >= Len(d)
      BY <1>2, <2>4, <2>5
    <3>2. Represents(This.size, Put(This, This.write, d), This.read, This.write + Len(d), content \o d)
      BY <1>1, <2>5, <3>1, PutAtEnd
    <3>3. writeIndex_ + n = size
      BY <2>2, <2>3
    <3>4. PICK b : b = Put(This, writeIndex_, d)
      OBVIOUS
    <3>5. v = [size |-> size, bytes |-> b, read |-> readIndex_, write |-> size]
      <4>1. v = [This EXCEPT !.bytes = b, !.write = size]
        BY <3>4, Zenon
      <4> HIDE DEF v
      <4> QED
        BY <4>1 DEF This
    <3>6. This.size = size /\ This.read = readIndex_ /\ This.write = writeIndex_
      BY DEF This
    <3>7. Represents(size, b, readIndex_, size, content \o d)
      BY <2>5, <3>2, <3>3, <3>4, <3>6, Zenon
    <3> HIDE DEF v
    <3> QED
      BY <3>5, <3>7 DEF VectorOK
  <2> HIDE DEF v
  <2> QED
    BY <2>1, <2>6, <2>8, <2>9, AppendToKeeps, Zenon
<1> QED
  BY <1>3, <1>4

\* retrieve takes bytes from the front, and goes back to the start when none is left.
LEMMA RetrieveKeeps ==
    ASSUME BufferInv, NEW len \in 0..size, retrieve(len)
    PROVE BufferInv'
<1>1. /\ size \in Nat /\ buffer_ \in [0..size - 1 -> Byte]
      /\ readIndex_ \in Nat /\ writeIndex_ \in Nat /\ readIndex_ <= writeIndex_
      /\ writeIndex_ <= size /\ kCheapPrependSize <= size
      /\ content \in Seq(Byte) /\ Len(content) = writeIndex_ - readIndex_
      /\ \A i \in 1..Len(content) : content[i] = buffer_[readIndex_ + i - 1]
      /\ failed \in {"no", "ensureWritable", "overflow"}
  BY Zenon DEF BufferInv, Represents
<1>2. /\ size' = size /\ buffer_' = buffer_ /\ failed' = failed
      /\ content' = SubSeq(content, len + 1, Len(content))
  BY Zenon DEF retrieve
<1>3. len \in Nat /\ len <= writeIndex_ - readIndex_
  BY <1>1 DEF retrieve, readableBytes, This
<1>4. /\ content' \in Seq(Byte) /\ Len(content') = Len(content) - len
      /\ \A i \in 1..Len(content') : content'[i] = content[len + i]
  <2>1. len + 1 \in 1..Len(content) + 1 /\ Len(content) \in Nat /\ len <= Len(content)
    BY <1>1, <1>3
  <2>2. \A i \in len + 1..Len(content) : content[i] \in Byte
    <3> SUFFICES ASSUME NEW i \in len + 1..Len(content) PROVE content[i] \in Byte
      OBVIOUS
    <3>1. i \in 1..Len(content)
      BY <1>3, <2>1
    <3> QED
      BY <1>1, <3>1, ElementOfSeq
  <2>3. /\ content' \in Seq(Byte)
        /\ Len(content') = IF len + 1 <= Len(content) THEN Len(content) - (len + 1) + 1 ELSE 0
        /\ \A i \in 1..Len(content) - (len + 1) + 1 : content'[i] = content[(len + 1) + i - 1]
    BY <1>2, <1>3, <2>1, <2>2, SubSeqProperties, SMTT(30)
  <2>4. Len(content') = Len(content) - len
    BY <1>3, <2>1, <2>3
  <2>5. ASSUME NEW i \in 1..Len(content')
        PROVE content'[i] = content[len + i]
    <3>1. i \in 1..Len(content) - (len + 1) + 1 /\ (len + 1) + i - 1 = len + i
      BY <1>3, <2>1, <2>4
    <3> QED
      BY <2>3, <3>1
  <2> QED
    BY <2>3, <2>4, <2>5
<1>5. CASE len < readableBytes(This)
  <2>1. readIndex_' = readIndex_ + len /\ writeIndex_' = writeIndex_
    BY <1>5, Zenon DEF retrieve
  <2>2. \A i \in 1..Len(content') : content'[i] = buffer_'[readIndex_' + i - 1]
    <3> SUFFICES ASSUME NEW i \in 1..Len(content')
                 PROVE content'[i] = buffer_'[readIndex_' + i - 1]
      OBVIOUS
    <3>1. len + i \in 1..Len(content) /\ readIndex_ + (len + i) - 1 = (readIndex_ + len) + i - 1
      BY <1>1, <1>3, <1>4
    <3>2. content[len + i] = buffer_[readIndex_ + (len + i) - 1]
      BY <1>1, <3>1
    <3> QED
      BY <1>2, <1>4, <2>1, <3>1, <3>2
  <2>3. /\ readIndex_' \in Nat /\ readIndex_' <= writeIndex_'
        /\ Len(content') = writeIndex_' - readIndex_'
    BY <1>1, <1>3, <1>4, <2>1
  <2>4. size' \in Nat /\ buffer_' \in [0..size' - 1 -> Byte] /\ writeIndex_' \in Nat
        /\ writeIndex_' <= size' /\ kCheapPrependSize <= size'
        /\ failed' \in {"no", "ensureWritable", "overflow"}
    BY <1>1, <1>2, <2>1, Zenon
  <2> QED
    BY <1>4, <2>2, <2>3, <2>4, Zenon DEF BufferInv, Represents
<1>6. CASE ~(len < readableBytes(This))
  <2>1. readIndex_' = kCheapPrependSize /\ writeIndex_' = kCheapPrependSize
    BY <1>6, Zenon DEF retrieve
  <2>2. len = Len(content) /\ Len(content) \in Nat
    BY <1>1, <1>3, <1>6 DEF readableBytes, This
  <2>3. Len(content') = 0
    BY <1>4, <2>2
  <2>4. \A i \in 1..Len(content') : content'[i] = buffer_'[readIndex_' + i - 1]
    BY <2>3
  <2>5. /\ readIndex_' \in Nat /\ writeIndex_' \in Nat /\ readIndex_' <= writeIndex_'
        /\ Len(content') = writeIndex_' - readIndex_' /\ writeIndex_' <= size'
    BY <1>1, <1>2, <2>1, <2>3, SizesAssumption
  <2>6. size' \in Nat /\ buffer_' \in [0..size' - 1 -> Byte] /\ kCheapPrependSize <= size'
        /\ failed' \in {"no", "ensureWritable", "overflow"}
    BY <1>1, <1>2, Zenon
  <2> QED
    BY <1>4, <2>4, <2>5, <2>6, Zenon DEF BufferInv, Represents
<1> QED
  BY <1>5, <1>6

\* prepend puts its bytes in front, if there is room below readIndex_.
LEMMA PrependKeeps ==
    ASSUME BufferInv, NEW data \in Data, prepend(data)
    PROVE BufferInv'
<1>1. /\ size \in Nat /\ buffer_ \in [0..size - 1 -> Byte]
      /\ readIndex_ \in Nat /\ writeIndex_ \in Nat /\ readIndex_ <= writeIndex_
      /\ writeIndex_ <= size /\ kCheapPrependSize <= size
      /\ content \in Seq(Byte) /\ Len(content) = writeIndex_ - readIndex_
      /\ \A i \in 1..Len(content) : content[i] = buffer_[readIndex_ + i - 1]
      /\ failed \in {"no", "ensureWritable", "overflow"}
  BY Zenon DEF BufferInv, Represents
<1>2. data \in Seq(Byte) /\ Len(data) \in Nat
  BY DataIsSeq, LenProperties
<1> DEFINE l == Len(data)
           r == readIndex_ - l
<1>3. /\ size' = size /\ writeIndex_' = writeIndex_ /\ failed' = failed
      /\ readIndex_' = r /\ content' = data \o content /\ l <= readIndex_
      /\ buffer_' = Put(This, readIndex_', data)
  BY Zenon DEF prepend
<1>4. buffer_' = [i \in 0..size - 1 |-> IF i \in r..(r + l - 1) THEN data[i - r + 1] ELSE buffer_[i]]
  <2>1. This.bytes = buffer_ /\ DOMAIN buffer_ = 0..size - 1
    BY <1>1 DEF This
  <2> QED
    BY <1>3, <2>1, Zenon DEF Put
<1>5. r \in Nat /\ r <= writeIndex_ /\ r + l = readIndex_ /\ l \in Nat
  BY <1>1, <1>2, <1>3
<1>6. buffer_' \in [0..size - 1 -> Byte]
  <2>1. ASSUME NEW i \in 0..size - 1
        PROVE (IF i \in r..(r + l - 1) THEN data[i - r + 1] ELSE buffer_[i]) \in Byte
    <3>1. CASE i \in r..(r + l - 1)
      <4>1. i - r + 1 \in 1..Len(data)
        BY <1>1, <1>5, <3>1
      <4>2. data[i - r + 1] \in Byte
        BY <1>2, <4>1, ElementOfSeq
      <4> QED
        BY <3>1, <4>2
    <3> QED
      BY <1>1, <3>1
  <2> QED
    BY <1>4, <2>1
<1>7. /\ content' \in Seq(Byte) /\ Len(content') = l + Len(content)
      /\ \A i \in 1..l + Len(content) : content'[i] = IF i <= l THEN data[i] ELSE content[i - l]
  BY <1>1, <1>2, <1>3, ConcatProperties
<1>8. \A i \in 1..l + Len(content) : content'[i] = buffer_'[r + i - 1]
  <2> SUFFICES ASSUME NEW i \in 1..l + Len(content)
               PROVE content'[i] = buffer_'[r + i - 1]
    OBVIOUS
  <2>0. Len(content) \in Nat /\ i \in Nat
    BY <1>1, <1>5
  <2>1. r + i - 1 \in 0..size - 1
    BY <1>1, <1>5, <2>0
  <2>2. CASE i <= l
    <3>1. r + i - 1 \in r..(r + l - 1) /\ (r + i - 1) - r + 1 = i
      BY <1>5, <2>0, <2>2
    <3>2. buffer_'[r + i - 1] = data[i]
      BY <1>4, <2>1, <3>1
    <3> QED
      BY <1>7, <2>2, <3>2
  <2>3. CASE ~(i <= l)
    <3>1. /\ r + i - 1 \notin r..(r + l - 1) /\ i - l \in 1..Len(content)
          /\ readIndex_ + (i - l) - 1 = r + i - 1
      BY <1>5, <2>0, <2>3
    <3>2. buffer_'[r + i - 1] = buffer_[r + i - 1]
      BY <1>4, <2>1, <3>1
    <3>3. content[i - l] = buffer_[r + i - 1]
      BY <1>1, <3>1
    <3> QED
      BY <1>7, <2>3, <3>2, <3>3
  <2> QED
    BY <2>2, <2>3
<1>9. Represents(size, buffer_', r, writeIndex_, content')
  <2>1. Len(content') = writeIndex_ - r
    BY <1>1, <1>5, <1>7
  <2> QED
    BY <1>1, <1>5, <1>6, <1>7, <1>8, <2>1, Zenon DEF Represents
<1> HIDE DEF r, l
<1> QED
  BY <1>1, <1>3, <1>9, Zenon DEF BufferInv

\* A new buffer is empty, with kCheapPrependSize bytes of room in front.
LEMMA BufferInvInitially == BufferInit => BufferInv
<1> SUFFICES ASSUME BufferInit PROVE BufferInv
  OBVIOUS
<1>1. /\ size \in Nat /\ kCheapPrependSize <= size /\ size = kCheapPrependSize + kDefaultInitialSize
      /\ readIndex_ = kCheapPrependSize /\ writeIndex_ = kCheapPrependSize
      /\ kCheapPrependSize \in Nat
  BY SizesAssumption DEF BufferInit
<1>2. buffer_ \in [0..size - 1 -> Byte]
  BY ByteAssumption DEF BufferInit
<1>3. content \in Seq(Byte) /\ Len(content) = 0 /\ failed = "no"
  BY DEF BufferInit
<1>4. \A i \in 1..Len(content) : content[i] = buffer_[readIndex_ + i - 1]
  BY <1>3
<1>5. Len(content) = writeIndex_ - readIndex_ /\ readIndex_ <= writeIndex_
  BY <1>1, <1>3
<1> QED
  BY <1>1, <1>2, <1>3, <1>4, <1>5 DEF BufferInv, Represents

\* Every operation keeps the indexes in order and the bytes between them.
LEMMA BufferInvKept == BufferInv /\ [BufferNext]_bufferVars => BufferInv'
<1> SUFFICES ASSUME BufferInv, [BufferNext]_bufferVars
             PROVE BufferInv'
  OBVIOUS
<1>1. CASE UNCHANGED bufferVars
  BY <1>1, Zenon DEF BufferInv, bufferVars
<1> QED
  BY <1>1, AppendKeeps, ReadFdKeeps, PrependKeeps, RetrieveKeeps, Zenon DEF BufferNext

\* What can be read is what was put in and not taken out, in order, and the indexes
\* never leave the vector.
THEOREM BufferReadsBack == BufferSpec => []ReadsBack
BY BufferInvInitially, BufferInvKept, ReadsBackIs, PTL DEF BufferSpec

-----------------------------------------------------------------------------
(* Induction and iteration                                                 *)

\* A set of numbers has a least one.
LEMMA LeastNat ==
    ASSUME NEW T \in SUBSET Nat, T # {}
    PROVE  \E x \in T : \A y \in T : x <= y
<1> DEFINE R == OpToRel(<, Nat)
<1>1. IsWellFoundedOn(R, Nat)
  BY NatLessThanWellFounded
<1>2. \A x, y \in Nat : y < x => <<y, x>> \in R
  BY DEF OpToRel
<1> HIDE DEF R
<1>3. PICK x \in T : \A y \in T : ~(<<y, x>> \in R)
  BY <1>1, WFMin
<1>4. ASSUME NEW y \in T PROVE x <= y
  <2>1. x \in Nat /\ y \in Nat
    OBVIOUS
  <2>2. ~(<<y, x>> \in R)
    BY <1>3
  <2>3. ~(y < x)
    BY <1>2, <2>1, <2>2, Zenon
  <2> QED
    BY <2>1, <2>3
<1> QED
  BY <1>4

\* Induction over the numbers in a set.
LEMMA Induction ==
    ASSUME NEW S, 0 \in S, \A n \in Nat : n \in S => n + 1 \in S
    PROVE  \A n \in Nat : n \in S
<1> SUFFICES ASSUME NEW T, T = {n \in Nat : n \notin S}, T # {} PROVE FALSE
  OBVIOUS
<1>1. PICK x \in T : \A y \in T : x <= y
  BY LeastNat
<1>2. x # 0 /\ x - 1 \in Nat /\ x - 1 \notin T
  BY <1>1
<1> QED
  BY <1>1, <1>2

\* The iterates of g from x are a function.
Iterates(S, g, x) ==
    \E h \in [Nat -> S] : h[0] = x /\ \A n \in Nat : h[n + 1] = g[h[n]]

\* Iterating a function defines one: what justifies Rounds and RequestStarts.
LEMMA IterationExists ==
    ASSUME NEW S, NEW g \in [S -> S], NEW x \in S
    PROVE  Iterates(S, g, x)
<1> DEFINE Good(n, p) == /\ p \in [0..n -> S] /\ p[0] = x
                         /\ \A i \in 0..n - 1 : p[i + 1] = g[p[i]]
           Ns == {n \in Nat : \E p : Good(n, p)}
           Us == {n \in Nat : \A m \in Nat : \A p, q :
                      m >= n /\ Good(n, p) /\ Good(m, q) => p[n] = q[n]}
<1>1. \A n \in Nat : n \in Ns
  <2>1. 0 \in Ns
    <3>1. Good(0, [i \in 0..0 |-> x])
      OBVIOUS
    <3> HIDE DEF Good
    <3> QED
      BY <3>1
  <2>2. ASSUME NEW n \in Nat, n \in Ns PROVE n + 1 \in Ns
    <3>1. PICK p : Good(n, p)
      BY <2>2
    <3>2. Good(n + 1, [i \in 0..n + 1 |-> IF i = n + 1 THEN g[p[n]] ELSE p[i]])
      BY <3>1
    <3> HIDE DEF Good
    <3> QED
      BY <3>2
  <2> HIDE DEF Ns
  <2> QED
    BY <2>1, <2>2, Induction
<1>2. \A n \in Nat : n \in Us
  <2>1. 0 \in Us
    OBVIOUS
  <2>2. ASSUME NEW n \in Nat, n \in Us PROVE n + 1 \in Us
    <3> SUFFICES ASSUME NEW m \in Nat, NEW p, NEW q,
                        m >= n + 1, Good(n + 1, p), Good(m, q)
                 PROVE  p[n + 1] = q[n + 1]
      OBVIOUS
    <3>1. Good(n, [i \in 0..n |-> p[i]])
      OBVIOUS
    <3>2. [i \in 0..n |-> p[i]][n] = q[n]
      <4> HIDE DEF Good
      <4> QED
        BY <2>2, <3>1
    <3> QED
      BY <3>2
  <2> HIDE DEF Us
  <2> QED
    BY <2>1, <2>2, Induction
<1> DEFINE P(n) == CHOOSE p : Good(n, p)
           h == [n \in Nat |-> P(n)[n]]
<1>3. \A n \in Nat : Good(n, P(n))
  <2> HIDE DEF Good
  <2> QED
    BY <1>1
<1>4. \A n \in Nat : P(n)[n] = P(n + 1)[n]
  <2> HIDE DEF Good, P
  <2> QED
    BY <1>2, <1>3
<1> HIDE DEF P
<1>5. h \in [Nat -> S] /\ h[0] = x
  BY <1>3
<1>6. ASSUME NEW n \in Nat PROVE h[n + 1] = g[h[n]]
  <2>1. Good(n + 1, P(n + 1))
    BY <1>3
  <2>2. n \in 0..(n + 1) - 1
    OBVIOUS
  <2>3. P(n + 1)[n + 1] = g[P(n + 1)[n]]
    BY <2>1, <2>2
  <2>4. h[n + 1] = P(n + 1)[n + 1] /\ h[n] = P(n)[n]
    OBVIOUS
  <2> QED
    BY <1>4, <2>3, <2>4
<1> HIDE DEF h
<1> QED
  BY <1>5, <1>6 DEF Iterates

-----------------------------------------------------------------------------
(* The loop of parseRequest                                                *)

Text == Seq(STRING)
Header == UNION {[D -> Text] : D \in SUBSET Text}
RequestType == [method : Method \cup {"kInvalid"}, version : Version \cup {"kUnknown"},
                path : Text, query : Text, headers : Header]
ParseStates == {"kExpectRequestLine", "kExpectHeaders", "kGotAll"}
ContextType == [parseState : ParseStates, request : RequestType]
ParserType == [does : {"more", "ok", "fail", "throw"}, context : ContextType, buf : Text]

\* First is the least number of a set.
LEMMA FirstIs ==
    ASSUME NEW T \in SUBSET Nat, T # {}
    PROVE  First(T) \in T /\ \A j \in T : First(T) <= j
  BY LeastNat DEF First

\* Last is the greatest number of a bounded set.
LEMMA LastIs ==
    ASSUME NEW T \in SUBSET Nat, T # {}, NEW n \in Nat, \A j \in T : j <= n
    PROVE  Last(T) \in T /\ \A j \in T : Last(T) >= j
<1> DEFINE D == {n - j : j \in T}
<1>1. PICK x \in D : \A y \in D : x <= y
  <2>1. D \in SUBSET Nat
    OBVIOUS
  <2>2. D # {}
    <3>1. PICK j : j \in T
      OBVIOUS
    <3> QED
      BY <3>1
  <2> HIDE DEF D
  <2> QED
    BY <2>1, <2>2, LeastNat
<1>2. PICK i \in T : x = n - i
  BY <1>1
<1>3. ASSUME NEW j \in T PROVE i >= j
  <2>1. i \in Nat /\ j \in Nat /\ n - j \in D
    OBVIOUS
  <2> QED
    BY <1>1, <1>2, <2>1
<1> HIDE DEF D
<1>4. \E k \in T : \A j \in T : k >= j
  BY <1>3
<1> QED
  BY <1>4 DEF Last

\* Find returns a place of the token, or the one after the end.
LEMMA FindIs ==
    ASSUME NEW s, NEW from \in Nat, NEW to \in Nat, NEW token, from <= to + 1
    PROVE  /\ Find(s, from, to, token) \in from..to + 1
           /\ Find(s, from, to, token) <= to => s[Find(s, from, to, token)] = token
           /\ \A i \in from..Find(s, from, to, token) - 1 : s[i] # token
<1> DEFINE T == {i \in from..to : s[i] = token}
<1>1. CASE T = {}
  BY <1>1 DEF Find
<1>2. CASE T # {}
  <2>1. First(T) \in T /\ \A j \in T : First(T) <= j
    <3>1. T \in SUBSET Nat
      OBVIOUS
    <3> HIDE DEF T
    <3> QED
      BY <1>2, <3>1, FirstIs
  <2>2. Find(s, from, to, token) = First(T)
    BY <1>2 DEF Find
  <2>3. First(T) \in Nat /\ First(T) \in from..to /\ s[First(T)] = token
    BY <2>1
  <2> QED
    BY <2>1, <2>2, <2>3
<1> QED
  BY <1>1, <1>2

\* A part of a text is a text.
LEMMA PartIs ==
    ASSUME NEW s \in Text, NEW m \in Int, NEW n \in Int, 1 <= m, n <= Len(s)
    PROVE  /\ SubSeq(s, m, n) \in Text
           /\ Len(SubSeq(s, m, n)) = IF m <= n THEN n - m + 1 ELSE 0
           /\ \A i \in 1..n - m + 1 : SubSeq(s, m, n)[i] = s[m + i - 1]
<1>1. \A i \in m..n : s[i] \in STRING
  BY DEF Text
<1> QED
  BY <1>1, SubSeqProperties DEF Text

\* Trim returns a text.
LEMMA TrimType ==
    ASSUME NEW s \in Text
    PROVE  Trim(s) \in Text
<1> DEFINE at == {i \in DOMAIN s : s[i] \notin Spaces}
<1>1. CASE at = {}
  <2>1. Trim(s) = <<>>
    BY <1>1 DEF Trim
  <2> QED
    BY <2>1 DEF Text
<1>2. CASE at # {}
  <2>1. at \in SUBSET Nat /\ \A j \in at : j <= Len(s) /\ 1 <= j
    BY DEF Text
  <2>2. Len(s) \in Nat
    BY DEF Text
  <2>3. Trim(s) = SubSeq(s, First(at), Last(at))
    BY <1>2 DEF Trim
  <2> HIDE DEF at
  <2>4. First(at) \in at /\ Last(at) \in at
    BY <1>2, <2>1, <2>2, FirstIs, LastIs
  <2>5. First(at) \in Nat /\ Last(at) \in Nat
    BY <2>1, <2>4, Zenon
  <2>7. 1 <= First(at) /\ Last(at) <= Len(s)
    BY <2>1, <2>4
  <2>6. SubSeq(s, First(at), Last(at)) \in Text
    BY <2>5, <2>7, PartIs
  <2> QED
    BY <2>3, <2>6
<1> QED
  BY <1>1, <1>2

\* setMethod, setPath and setQuery keep a request one, and leave its headers alone.
LEMMA SetType ==
    ASSUME NEW request \in RequestType, NEW word \in Text
    PROVE  /\ setMethod(request, word) \in RequestType
           /\ setPath(request, word) \in RequestType
           /\ setQuery(request, word) \in RequestType
           /\ setMethod(request, word).headers = request.headers
           /\ setPath(request, word).headers = request.headers
           /\ setQuery(request, word).headers = request.headers
           /\ setMethod(request, word).method =
                 IF Len(word) = 1 /\ word[1] \in Method THEN word[1] ELSE "kInvalid"
<1> DEFINE m == IF Len(word) = 1 /\ word[1] \in Method THEN word[1] ELSE "kInvalid"
<1>1. m \in Method \cup {"kInvalid"}
  OBVIOUS
<1> HIDE DEF m
<1>2. setMethod(request, word) = [request EXCEPT !.method = m]
  BY DEF setMethod, m
<1>3. /\ [request EXCEPT !.method = m] \in RequestType
      /\ [request EXCEPT !.method = m].headers = request.headers
      /\ [request EXCEPT !.method = m].method = m
  BY <1>1 DEF RequestType
<1>4. setPath(request, word) \in RequestType /\ setQuery(request, word) \in RequestType
  BY DEF setPath, setQuery, RequestType
<1>5. /\ setPath(request, word).headers = request.headers
      /\ setQuery(request, word).headers = request.headers
  BY DEF setPath, setQuery, RequestType
<1> QED
  BY <1>2, <1>3, <1>4, <1>5 DEF m

\* parseRequestLine: whether a line is good does not depend on what the request was
\* before, and the headers are left alone.
LEMMA RequestLine ==
    ASSUME NEW request \in RequestType, NEW old \in RequestType, NEW line \in Text
    PROVE  LET f == parseRequestLine(request, line)
           IN /\ f.request \in RequestType
              /\ f.does \in {"ok", "fail", "throw"}
              /\ f.does = parseRequestLine(old, line).does
              /\ f.request.headers = request.headers
<1> DEFINE end == Len(line)
           space1 == Find(line, 1, end, SP)
           space2 == Find(line, space1 + 1, end, SP)
           question == Find(line, space2, end, "?")
           path == SubSeq(line, space1 + 1, question - 1)
           path2 == SubSeq(line, space1 + 1, space2 - 1)
           query == SubSeq(line, question, space2 - 1)
           word == SubSeq(line, 1, space1 - 1)
           version == SubSeq(line, space2 + 1, end)
           known == Len(version) = 1 /\ version[1] \in Version
           method == IF Len(word) = 1 /\ word[1] \in Method THEN word[1] ELSE "kInvalid"
           R1(r) == setMethod(r, word)
           R2(r) == IF question <= end THEN setQuery(setPath(R1(r), path), query)
                    ELSE setPath(R1(r), path2)
           Verdict == IF space1 > end THEN "fail"
                      ELSE IF method = "kInvalid" \/ space2 > end THEN "fail"
                      ELSE IF question <= end /\ setQueryThrows(question, space2) THEN "throw"
                      ELSE IF known THEN "ok" ELSE "fail"
           After(r) == IF space1 > end THEN r
                       ELSE IF method = "kInvalid" \/ space2 > end THEN R1(r)
                       ELSE IF question <= end /\ setQueryThrows(question, space2)
                            THEN setPath(R1(r), R2(r).path)
                       ELSE IF known THEN [R2(r) EXCEPT !.version = version[1]] ELSE R2(r)
<1>1. end \in Nat
  BY DEF Text
<1>2. space1 \in 1..end + 1
  BY <1>1, FindIs
<1>3. CASE space1 > end
  BY <1>3 DEF parseRequestLine
<1>4. CASE space1 <= end
  <2> HIDE DEF end, space1
  <2>1. space2 \in space1 + 1..end + 1
    <3>1. space1 + 1 \in Nat /\ space1 + 1 <= end + 1
      BY <1>1, <1>2, <1>4
    <3> QED
      BY <1>1, <3>1, FindIs
  <2> HIDE DEF space2
  <2>2. question \in space2..end + 1
    <3>1. space2 \in Nat /\ space2 <= end + 1
      BY <1>1, <1>2, <1>4, <2>1
    <3> QED
      BY <1>1, <3>1, FindIs
  <2> HIDE DEF question
  <2>3. /\ {space1, space2, question, end} \subseteq Nat
        /\ space1 + 1 \in Int /\ space1 - 1 \in Int /\ space2 - 1 \in Int
        /\ question - 1 \in Int /\ 1 <= space1 + 1 /\ 1 <= question
        /\ question - 1 <= Len(line) /\ space2 - 1 <= Len(line) /\ space1 - 1 <= Len(line)
    BY <1>1, <1>2, <1>4, <2>1, <2>2 DEF end
  <2>4. path \in Text /\ path2 \in Text /\ word \in Text /\ query \in Text
    BY <2>3, PartIs
  <2>5. known => version[1] \in Version
    OBVIOUS
  <2> HIDE DEF word, path, path2, query, version
  <2>6. ASSUME NEW r \in RequestType
        PROVE  /\ R1(r) \in RequestType /\ R1(r).headers = r.headers
               /\ R1(r).method = method
               /\ R2(r) \in RequestType /\ R2(r).headers = r.headers
    <3>1. R1(r) \in RequestType /\ R1(r).headers = r.headers /\ R1(r).method = method
      BY <2>4, SetType
    <3> HIDE DEF R1
    <3>2. /\ setPath(R1(r), path) \in RequestType /\ setPath(R1(r), path2) \in RequestType
          /\ setPath(R1(r), path).headers = r.headers
          /\ setPath(R1(r), path2).headers = r.headers
      BY <2>4, <3>1, SetType
    <3>3. /\ setQuery(setPath(R1(r), path), query) \in RequestType
          /\ setQuery(setPath(R1(r), path), query).headers = r.headers
      BY <2>4, <3>2, SetType
    <3> QED
      BY <3>1, <3>2, <3>3
  <2>7. ASSUME NEW r \in RequestType
        PROVE  parseRequestLine(r, line) = [does |-> Verdict, request |-> After(r)]
    <3>1. R1(r).method = method
      BY <2>6
    <3> QED
      BY <1>4, <3>1 DEF parseRequestLine, end, space1, space2, question, word, path, path2,
                        query, version
  <2>8. ASSUME NEW r \in RequestType
        PROVE  After(r) \in RequestType /\ After(r).headers = r.headers
    <3>1. R2(r).path \in Text
      BY <2>6 DEF RequestType
    <3>2. /\ setPath(R1(r), R2(r).path) \in RequestType
          /\ setPath(R1(r), R2(r).path).headers = r.headers
      BY <2>6, <3>1, SetType
    <3>3. known => /\ [R2(r) EXCEPT !.version = version[1]] \in RequestType
                   /\ [R2(r) EXCEPT !.version = version[1]].headers = r.headers
      <4> HIDE DEF R2
      <4> QED
        BY <2>5, <2>6 DEF RequestType
    <3> HIDE DEF R1, R2, known, method
    <3> QED
      BY <2>6, <3>2, <3>3
  <2> HIDE DEF After
  <2>9. Verdict \in {"ok", "fail", "throw"}
    OBVIOUS
  <2> HIDE DEF Verdict
  <2> QED
    BY <2>7, <2>8, <2>9
<1> QED
  BY <1>2, <1>3, <1>4

\* findCRLF returns the first CRLF, or 0.
LEMMA CRLFIs ==
    ASSUME NEW b \in Text
    PROVE  /\ CRLFs(b) = {} => findCRLF(b) = 0
           /\ CRLFs(b) # {} => /\ findCRLF(b) \in CRLFs(b)
                               /\ \A j \in CRLFs(b) : findCRLF(b) <= j
           /\ findCRLF(b) \in Nat
           /\ findCRLF(b) # 0 => CRLFs(b) # {} /\ findCRLF(b) + 1 <= Len(b)
<1>1. Len(b) \in Nat
  BY DEF Text
<1>2. CRLFs(b) \in SUBSET Nat /\ \A i \in CRLFs(b) : 1 <= i /\ i + 1 <= Len(b)
  BY <1>1 DEF CRLFs
<1>3. CRLFs(b) # {} => First(CRLFs(b)) \in CRLFs(b) /\ \A j \in CRLFs(b) : First(CRLFs(b)) <= j
  BY <1>2, FirstIs
<1> QED
  BY <1>2, <1>3 DEF findCRLF

\* addHeader keeps a request one.
LEMMA HeaderType ==
    ASSUME NEW request \in RequestType, NEW line \in Text, NEW colon \in 1..Len(line)
    PROVE  addHeader(request, line, colon) \in RequestType
<1> DEFINE name == SubSeq(line, 1, colon - 1)
           value == Trim(SubSeq(line, colon + 1, Len(line)))
           old == request.headers
           new == [h \in DOMAIN old \cup {name} |-> IF h = name THEN value ELSE old[h]]
<1>1. Len(line) \in Nat
  BY DEF Text
<1>2. name \in Text /\ value \in Text
  BY <1>1, PartIs, TrimType
<1> HIDE DEF name, value
<1>3. PICK D \in SUBSET Text : old \in [D -> Text]
  BY DEF RequestType, Header
<1>4. new \in [D \cup {name} -> Text]
  BY <1>2, <1>3
<1>5. D \cup {name} \in SUBSET Text
  BY <1>2
<1> HIDE DEF old
<1>6. new \in Header
  <2> HIDE DEF new
  <2> QED
    BY <1>4, <1>5 DEF Header
<1>7. addHeader(request, line, colon) = [request EXCEPT !.headers = new]
  BY DEF addHeader, name, value, old
<1> HIDE DEF new
<1> QED
  BY <1>6, <1>7 DEF RequestType

\* A round leaves the parser's state one.
LEMMA RoundType ==
    ASSUME NEW p \in ParserType
    PROVE  Round(p) \in ParserType
<1> DEFINE crlf == findCRLF(p.buf)
           line == SubSeq(p.buf, 1, crlf - 1)
           rest == SubSeq(p.buf, crlf + 2, Len(p.buf))
           colon == Find(line, 1, Len(line), ":")
           state == p.context.parseState
           request == p.context.request
           first == parseRequestLine(request, line)
<1>1. /\ p.buf \in Text /\ request \in RequestType /\ state \in ParseStates
      /\ p.does \in {"more", "ok", "fail", "throw"}
  BY DEF ParserType, ContextType
<1>2. ASSUME NEW d \in {"more", "ok", "fail", "throw"}, NEW s \in ParseStates,
             NEW r \in RequestType, NEW b \in Text
      PROVE  Result(d, s, r, b) \in ParserType
  BY DEF Result, ParserType, ContextType
<1> HIDE DEF request, state
<1>3. CASE p.does # "more" \/ crlf = 0
  <2>1. CASE p.does # "more"
    BY <2>1 DEF Round
  <2>2. CASE p.does = "more" /\ crlf = 0
    <3>1. Round(p) = Result("ok", state, request, p.buf)
      BY <2>2 DEF Round, request, state
    <3> QED
      BY <1>1, <1>2, <3>1
  <2> QED
    BY <1>3, <2>1, <2>2
<1>4. CASE p.does = "more" /\ crlf # 0
  <2>1. Len(p.buf) \in Nat /\ crlf \in Nat /\ crlf + 1 <= Len(p.buf)
    <3>1. Len(p.buf) \in Nat
      BY <1>1 DEF Text
    <3> QED
      BY <1>1, <1>4, <3>1, CRLFIs
  <2> HIDE DEF crlf
  <2>2. line \in Text /\ rest \in Text
    BY <1>1, <2>1, PartIs
  <2> HIDE DEF line, rest
  <2>3. Len(line) \in Nat
    BY <2>2 DEF Text
  <2>4. colon \in 1..Len(line) + 1
    BY <2>3, FindIs
  <2> HIDE DEF colon
  <2>5. first.request \in RequestType /\ first.does \in {"ok", "fail", "throw"}
    BY <1>1, <2>2, RequestLine
  <2> HIDE DEF first
  <2>6. CASE state = "kExpectRequestLine" /\ first.does = "ok"
    <3>1. Round(p) = Result("more", "kExpectHeaders", first.request, rest)
      BY <1>4, <2>6 DEF Round, request, state, first, line, rest, crlf
    <3> QED
      BY <1>2, <2>2, <2>5, <3>1 DEF ParseStates
  <2>7. CASE state = "kExpectRequestLine" /\ first.does # "ok"
    <3>1. Round(p) = Result(first.does, state, first.request, p.buf)
      BY <1>4, <2>7 DEF Round, request, state, first, line, rest, crlf
    <3> QED
      BY <1>1, <1>2, <2>5, <3>1
  <2>8. CASE state # "kExpectRequestLine" /\ colon <= Len(line)
    <3>1. Round(p) = Result("more", state, addHeader(request, line, colon), rest)
      BY <1>4, <2>8 DEF Round, request, state, first, line, rest, crlf, colon
    <3>2. addHeader(request, line, colon) \in RequestType
      BY <1>1, <2>2, <2>3, <2>4, <2>8, HeaderType
    <3> QED
      BY <1>1, <1>2, <2>2, <3>1, <3>2
  <2>9. CASE state # "kExpectRequestLine" /\ ~(colon <= Len(line))
    <3>1. Round(p) = Result("ok", "kGotAll", request, rest)
      BY <1>4, <2>9 DEF Round, request, state, first, line, rest, crlf, colon
    <3> QED
      BY <1>1, <1>2, <2>2, <3>1 DEF ParseStates
  <2> QED
    BY <2>6, <2>7, <2>8, <2>9
<1> QED
  BY <1>1, <1>3, <1>4

\* Rounds is what its recursion says.
LEMMA RoundsAre ==
    ASSUME NEW c \in ContextType, NEW b \in Text
    PROVE  /\ Rounds(c, b) \in [Nat -> ParserType]
           /\ Rounds(c, b)[0] = Result("more", c.parseState, c.request, b)
           /\ \A n \in Nat : Rounds(c, b)[n + 1] = Round(Rounds(c, b)[n])
<1> DEFINE start == Result("more", c.parseState, c.request, b)
           g == [p \in ParserType |-> Round(p)]
           Def(f) == [n \in Nat |-> IF n = 0 THEN start ELSE Round(f[n - 1])]
<1>1. start \in ParserType
  BY DEF Result, ParserType, ContextType
<1> HIDE DEF start
<1>2. g \in [ParserType -> ParserType]
  BY RoundType
<1> HIDE DEF g
<1>3. PICK h \in [Nat -> ParserType] : h[0] = start /\ \A n \in Nat : h[n + 1] = g[h[n]]
  <2>1. Iterates(ParserType, g, start)
    BY <1>1, <1>2, IterationExists
  <2> QED
    BY <2>1 DEF Iterates
<1>4. \A n \in Nat : h[n + 1] = Round(h[n])
  BY <1>3 DEF g
<1>5. h = Def(h)
  <2>1. ASSUME NEW n \in Nat PROVE h[n] = IF n = 0 THEN start ELSE Round(h[n - 1])
    <3>1. CASE n = 0
      BY <1>3, <3>1
    <3>2. CASE n # 0
      <4>1. n - 1 \in Nat /\ (n - 1) + 1 = n
        BY <3>2
      <4> QED
        BY <1>4, <3>2, <4>1
    <3> QED
      BY <3>1, <3>2
  <2> QED
    BY <1>3, <2>1
<1>6. Rounds(c, b) = CHOOSE f : f = Def(f)
  BY DEF Rounds, start
<1> DEFINE F == CHOOSE f : f = Def(f)
<1>7. F = Def(F)
  <2> HIDE DEF Def
  <2> QED
    BY <1>5
<1> HIDE DEF F
<1>8. F[0] = start
  BY <1>7
<1>9. ASSUME NEW n \in Nat PROVE F[n + 1] = Round(F[n])
  <2>1. n + 1 \in Nat /\ n + 1 # 0 /\ (n + 1) - 1 = n
    OBVIOUS
  <2>2. Def(F)[n + 1] = Round(F[(n + 1) - 1])
    BY <2>1
  <2> HIDE DEF Def
  <2> QED
    BY <1>7, <2>1, <2>2
<1>10. \A n \in Nat : F[n] \in ParserType
  <2> DEFINE Ns == {n \in Nat : F[n] \in ParserType}
  <2>1. 0 \in Ns
    BY <1>1, <1>8
  <2>2. ASSUME NEW n \in Nat, n \in Ns PROVE n + 1 \in Ns
    BY <1>9, <2>2, RoundType
  <2>3. \A n \in Nat : n \in Ns
    <3> HIDE DEF Ns
    <3> QED
      BY <2>1, <2>2, Induction
  <2> QED
    BY <2>3
<1>11. F \in [Nat -> ParserType]
  <2>1. F = [n \in Nat |-> F[n]]
    BY <1>7
  <2> QED
    BY <1>10, <2>1
<1> QED
  BY <1>6, <1>8, <1>9, <1>11 DEF F, start

-----------------------------------------------------------------------------
(* Lines and requests of a stream                                          *)

\* CRLFs are inside the text and do not overlap.
LEMMA CRLFsAre ==
    ASSUME NEW s \in Text
    PROVE  /\ Len(s) \in Nat
           /\ CRLFs(s) \in SUBSET Nat
           /\ \A i \in CRLFs(s) : 1 <= i /\ i + 1 <= Len(s) /\ s[i] = CR /\ s[i + 1] = LF
           /\ \A i \in CRLFs(s) : i + 1 \notin CRLFs(s)
<1>1. Len(s) \in Nat
  BY DEF Text
<1>2. /\ CRLFs(s) \in SUBSET Nat
      /\ \A i \in CRLFs(s) : 1 <= i /\ i + 1 <= Len(s) /\ s[i] = CR /\ s[i + 1] = LF
  BY <1>1 DEF CRLFs
<1>3. CR # LF
  BY DEF CR, LF
<1> QED
  BY <1>1, <1>2, <1>3

\* EndOf is the first CRLF from the beginning of the line on.
LEMMA EndIs ==
    ASSUME NEW s \in Text, NEW a \in Nat, Complete(s, a)
    PROVE  /\ EndOf(s, a) \in CRLFs(s) /\ EndOf(s, a) \in Nat /\ a <= EndOf(s, a)
           /\ \A j \in CRLFs(s) : j >= a => EndOf(s, a) <= j
<1> DEFINE T == {i \in CRLFs(s) : i >= a}
<1>1. T \in SUBSET Nat /\ T # {}
  BY CRLFsAre DEF Complete
<1>2. EndOf(s, a) = First(T)
  BY DEF EndOf
<1>3. First(T) \in T /\ \A j \in T : First(T) <= j
  <2> HIDE DEF T
  <2> QED
    BY <1>1, FirstIs
<1> QED
  BY <1>1, <1>2, <1>3

\* A complete line is a text without the CRLF.
LEMMA LineIs ==
    ASSUME NEW s \in Text, NEW a \in Nat, 1 <= a, Complete(s, a)
    PROVE  LineAt(s, a) \in Text
<1>1. EndOf(s, a) \in Nat /\ EndOf(s, a) - 1 \in Int /\ EndOf(s, a) - 1 <= Len(s)
  BY EndIs, CRLFsAre
<1> QED
  BY <1>1, PartIs DEF LineAt

\* Where the lines after another begin.
LEMMA LinesAfterAre ==
    ASSUME NEW s \in Text, NEW a \in Nat
    PROVE  /\ LinesAfter(s, a) \in SUBSET Nat
           /\ \A b \in Nat : b \in LinesAfter(s, a) <=>
                 b - 2 \in CRLFs(s) /\ b - 2 >= a /\ Complete(s, b)
           /\ \A b \in LinesAfter(s, a) : b >= a + 2 /\ b <= Len(s)
<1>1. CRLFs(s) \in SUBSET Nat /\ Len(s) \in Nat
  BY CRLFsAre
<1>2. LinesAfter(s, a) \in SUBSET Nat
  BY <1>1 DEF LinesAfter
<1>3. ASSUME NEW b \in Nat
      PROVE b \in LinesAfter(s, a) <=> b - 2 \in CRLFs(s) /\ b - 2 >= a /\ Complete(s, b)
  <2>1. \A i \in CRLFs(s) : b = i + 2 <=> i = b - 2
    BY <1>1
  <2> QED
    BY <1>1, <2>1 DEF LinesAfter
<1>4. ASSUME NEW b \in LinesAfter(s, a) PROVE b >= a + 2 /\ b <= Len(s)
  <2>1. b \in Nat /\ b - 2 >= a /\ Complete(s, b)
    BY <1>2, <1>3
  <2>2. EndOf(s, b) \in Nat /\ b <= EndOf(s, b) /\ EndOf(s, b) + 1 <= Len(s)
    BY <2>1, EndIs, CRLFsAre
  <2> QED
    BY <1>1, <2>1, <2>2
<1> QED
  BY <1>2, <1>3, <1>4

\* The line that ends the headers.
LEMMA LastLineIs ==
    ASSUME NEW s \in Text, NEW a \in Nat, LastLines(s, a) # {}
    PROVE  /\ First(LastLines(s, a)) \in LinesAfter(s, a)
           /\ ~HasColon(LineAt(s, First(LastLines(s, a))))
           /\ \A b \in LinesAfter(s, a) : b < First(LastLines(s, a)) => HasColon(LineAt(s, b))
<1>1. LastLines(s, a) \in SUBSET Nat
  BY LinesAfterAre DEF LastLines
<1>2. /\ First(LastLines(s, a)) \in LastLines(s, a)
      /\ \A j \in LastLines(s, a) : First(LastLines(s, a)) <= j
  BY <1>1, FirstIs
<1>3. First(LastLines(s, a)) \in LinesAfter(s, a)
  BY <1>2 DEF LastLines
<1>4. ASSUME NEW b \in LinesAfter(s, a), b < First(LastLines(s, a))
      PROVE  HasColon(LineAt(s, b))
  <2>1. b \in Nat /\ First(LastLines(s, a)) \in Nat
    BY <1>1, <1>2, LinesAfterAre
  <2>2. b \notin LastLines(s, a)
    BY <1>2, <1>4, <2>1
  <2> QED
    BY <2>2 DEF LastLines
<1> QED
  BY <1>2, <1>3, <1>4 DEF LastLines

\* Where the next request begins.
After(s, a) == IF IsRequestAt(s, a) THEN EndOf(s, First(LastLines(s, a))) + 2 ELSE a

\* A request ends behind its beginning, inside the stream.
LEMMA AfterIs ==
    ASSUME NEW s \in Text, NEW a \in Nat, 1 <= a
    PROVE  /\ After(s, a) \in Nat /\ a <= After(s, a)
           /\ IsRequestAt(s, a) => After(s, a) <= Len(s) + 1
<1>1. CASE IsRequestAt(s, a)
  <2> DEFINE l == First(LastLines(s, a))
  <2>1. l \in LinesAfter(s, a)
    BY <1>1, LastLineIs DEF IsRequestAt
  <2> HIDE DEF l
  <2>2. l \in Nat /\ l >= a + 2 /\ Complete(s, l)
    BY <2>1, LinesAfterAre
  <2>3. EndOf(s, l) \in Nat /\ l <= EndOf(s, l) /\ EndOf(s, l) + 1 <= Len(s) /\ Len(s) \in Nat
    BY <2>2, EndIs, CRLFsAre
  <2> QED
    BY <1>1, <2>2, <2>3 DEF After, l
<1>2. CASE ~IsRequestAt(s, a)
  BY <1>2 DEF After
<1> QED
  BY <1>1, <1>2

\* RequestStarts is what its recursion says.
LEMMA StartsAre ==
    ASSUME NEW s \in Text
    PROVE  /\ \A n \in Nat : RequestStarts(s)[n] \in Nat \ {0}
           /\ RequestStarts(s)[0] = 1
           /\ \A n \in Nat : RequestStarts(s)[n + 1] = After(s, RequestStarts(s)[n])
<1> DEFINE S == Nat \ {0}
           g == [a \in S |-> After(s, a)]
           Def(f) == [n \in Nat |-> IF n = 0 THEN 1 ELSE After(s, f[n - 1])]
<1>1. g \in [S -> S]
  <2>1. \A a \in S : After(s, a) \in S
    BY AfterIs
  <2> QED
    BY <2>1
<1> HIDE DEF g
<1>2. PICK h \in [Nat -> S] : h[0] = 1 /\ \A n \in Nat : h[n + 1] = g[h[n]]
  <2>1. 1 \in S
    OBVIOUS
  <2> HIDE DEF S
  <2>2. Iterates(S, g, 1)
    BY <1>1, <2>1, IterationExists
  <2> QED
    BY <2>2 DEF Iterates
<1>3. \A n \in Nat : h[n + 1] = After(s, h[n])
  BY <1>2 DEF g
<1>4. h = Def(h)
  <2>1. ASSUME NEW n \in Nat PROVE h[n] = IF n = 0 THEN 1 ELSE After(s, h[n - 1])
    <3>1. CASE n = 0
      BY <1>2, <3>1
    <3>2. CASE n # 0
      <4>1. n - 1 \in Nat /\ (n - 1) + 1 = n
        BY <3>2
      <4> QED
        BY <1>3, <3>2, <4>1
    <3> QED
      BY <3>1, <3>2
  <2> QED
    BY <1>2, <2>1
<1> DEFINE F == CHOOSE f : f = Def(f)
<1>5. RequestStarts(s) = F
  BY DEF RequestStarts, After
<1>6. F = Def(F)
  <2> HIDE DEF Def
  <2> QED
    BY <1>4
<1> HIDE DEF F
<1>7. F[0] = 1
  BY <1>6
<1>8. ASSUME NEW n \in Nat PROVE F[n + 1] = After(s, F[n])
  <2>1. n + 1 \in Nat /\ n + 1 # 0 /\ (n + 1) - 1 = n
    OBVIOUS
  <2>2. Def(F)[n + 1] = After(s, F[(n + 1) - 1])
    BY <2>1
  <2> HIDE DEF Def
  <2> QED
    BY <1>6, <2>1, <2>2
<1>9. \A n \in Nat : F[n] \in S
  <2> DEFINE Ns == {n \in Nat : F[n] \in S}
  <2>1. 0 \in Ns
    BY <1>7
  <2>2. ASSUME NEW n \in Nat, n \in Ns PROVE n + 1 \in Ns
    <3>1. F[n] \in Nat /\ 1 <= F[n]
      BY <2>2
    <3>2. After(s, F[n]) \in Nat /\ F[n] <= After(s, F[n])
      BY <3>1, AfterIs
    <3> QED
      BY <1>8, <3>1, <3>2
  <2>3. \A n \in Nat : n \in Ns
    <3> HIDE DEF Ns
    <3> QED
      BY <2>1, <2>2, Induction
  <2> QED
    BY <2>3
<1> QED
  BY <1>5, <1>7, <1>8, <1>9

\* A part of a part of a text is a part of the text.
LEMMA PartOfPart ==
    ASSUME NEW s \in Text, NEW p \in Int, NEW q \in Int, 1 <= p, p <= q + 1, q <= Len(s),
           NEW m \in Int, NEW n \in Int, 1 <= m, n <= q - p + 1
    PROVE  SubSeq(SubSeq(s, p, q), m, n) = SubSeq(s, p + m - 1, p + n - 1)
<1> DEFINE b == SubSeq(s, p, q)
           l == SubSeq(b, m, n)
           r == SubSeq(s, p + m - 1, p + n - 1)
<1>1. Len(s) \in Nat
  BY DEF Text
<1>2. /\ b \in Text /\ Len(b) = q - p + 1
      /\ \A i \in 1..q - p + 1 : b[i] = s[p + i - 1]
  <2>1. /\ b \in Text /\ Len(b) = IF p <= q THEN q - p + 1 ELSE 0
        /\ \A i \in 1..q - p + 1 : b[i] = s[p + i - 1]
    BY PartIs
  <2> HIDE DEF b
  <2> QED
    BY <2>1
<1> HIDE DEF b
<1>3. /\ l \in Text /\ Len(l) = IF m <= n THEN n - m + 1 ELSE 0
      /\ \A i \in 1..n - m + 1 : l[i] = b[m + i - 1]
  BY <1>2, PartIs
<1>4. p + m - 1 \in Int /\ p + n - 1 \in Int /\ 1 <= p + m - 1 /\ p + n - 1 <= Len(s)
  BY <1>1
<1>5. /\ r \in Text
      /\ Len(r) = IF p + m - 1 <= p + n - 1 THEN p + n - 1 - (p + m - 1) + 1 ELSE 0
      /\ \A i \in 1..p + n - 1 - (p + m - 1) + 1 : r[i] = s[p + m - 1 + i - 1]
  BY <1>4, PartIs
<1> HIDE DEF l, r
<1>6. Len(l) = Len(r) /\ Len(l) \in Nat
  BY <1>3, <1>5
<1>7. ASSUME NEW i \in 1..Len(l) PROVE l[i] = r[i]
  <2>1. /\ i \in 1..n - m + 1 /\ i \in 1..p + n - 1 - (p + m - 1) + 1
        /\ m + i - 1 \in 1..q - p + 1
    BY <1>3, <1>6
  <2>2. l[i] = b[m + i - 1] /\ r[i] = s[p + m - 1 + i - 1]
    BY <1>3, <1>5, <2>1
  <2>3. b[m + i - 1] = s[p + (m + i - 1) - 1]
    BY <1>2, <2>1
  <2>4. p + (m + i - 1) - 1 = p + m - 1 + i - 1
    BY <2>1
  <2> QED
    BY <2>2, <2>3, <2>4
<1>8. l = r
  BY <1>3, <1>5, <1>6, <1>7, SeqEqual DEF Text
<1> QED
  BY <1>8 DEF l, r, b

\* What the parser sees of a stream in a buffer that holds its places p to q.
LEMMA Window ==
    ASSUME NEW s \in Text, NEW p \in Nat, NEW q \in Nat, 1 <= p, p <= q + 1, q <= Len(s),
           NEW b, b = SubSeq(s, p, q)
    PROVE  /\ b \in Text /\ Len(b) = q - p + 1
           /\ \A i \in CRLFs(b) : p + i - 1 \in CRLFs(s) /\ p + i <= q
           /\ \A i \in CRLFs(s) : p <= i /\ i + 1 <= q => i - p + 1 \in CRLFs(b)
<1>1. Len(s) \in Nat
  BY DEF Text
<1>2. /\ b \in Text /\ Len(b) = IF p <= q THEN q - p + 1 ELSE 0
      /\ \A i \in 1..q - p + 1 : b[i] = s[p + i - 1]
  BY PartIs
<1>3. Len(b) = q - p + 1
  BY <1>2
<1>4. ASSUME NEW i \in CRLFs(b) PROVE p + i - 1 \in CRLFs(s) /\ p + i <= q
  <2>1. i \in Nat /\ 1 <= i /\ i + 1 <= Len(b) /\ b[i] = CR /\ b[i + 1] = LF
    BY <1>2, CRLFsAre
  <2>2. i \in 1..q - p + 1 /\ i + 1 \in 1..q - p + 1
    BY <1>3, <2>1
  <2>3. s[p + i - 1] = CR /\ s[p + (i + 1) - 1] = LF
    BY <1>2, <2>1, <2>2
  <2>4. p + i - 1 \in 1..Len(s) - 1 /\ p + (i + 1) - 1 = (p + i - 1) + 1 /\ p + i <= q
    BY <1>1, <1>3, <2>1
  <2> QED
    BY <2>3, <2>4 DEF CRLFs
<1>5. ASSUME NEW i \in CRLFs(s), p <= i, i + 1 <= q PROVE i - p + 1 \in CRLFs(b)
  <2>1. i \in Nat /\ s[i] = CR /\ s[i + 1] = LF
    BY CRLFsAre
  <2>2. i - p + 1 \in 1..q - p + 1 /\ (i - p + 1) + 1 \in 1..q - p + 1
    BY <1>5, <2>1
  <2>3. p + (i - p + 1) - 1 = i /\ p + ((i - p + 1) + 1) - 1 = i + 1
    BY <2>1
  <2>4. b[i - p + 1] = CR /\ b[(i - p + 1) + 1] = LF
    BY <1>2, <2>1, <2>2, <2>3
  <2>5. i - p + 1 \in 1..Len(b) - 1
    BY <1>3, <1>5, <2>1
  <2> QED
    BY <2>4, <2>5 DEF CRLFs
<1> QED
  BY <1>2, <1>3, <1>4, <1>5

\* A buffer has every CRLF of the stream that is between its ends.
HasCRLFs(s, p, q, b) == \A i \in CRLFs(s) : p <= i /\ i + 1 <= q => i - p + 1 \in CRLFs(b)

\* The same, for a buffer that holds the places p to q.
LEMMA WindowHas ==
    ASSUME NEW s \in Text, NEW p \in Nat, NEW q \in Nat, 1 <= p, p <= q + 1, q <= Len(s),
           NEW b, b = SubSeq(s, p, q)
    PROVE  HasCRLFs(s, p, q, b)
  BY Window DEF HasCRLFs

\* The line and the rest that the parser sees in its buffer b are those of the stream.
Seen(s, p, q, b) ==
    /\ Complete(s, p) /\ EndOf(s, p) = p + findCRLF(b) - 1 /\ EndOf(s, p) + 1 <= q
    /\ SubSeq(b, 1, findCRLF(b) - 1) = LineAt(s, p)
    /\ SubSeq(b, findCRLF(b) + 2, Len(b)) = SubSeq(s, EndOf(s, p) + 2, q)

\* The line that the parser takes from the buffer is the line of the stream.
LEMMA LineSeen ==
    ASSUME NEW s \in Text, NEW p \in Nat, NEW q \in Nat, 1 <= p, p <= q + 1, q <= Len(s),
           NEW b, b = SubSeq(s, p, q), findCRLF(b) # 0
    PROVE  Seen(s, p, q, b)
<1> DEFINE c == findCRLF(b)
           e == p + c - 1
<1>1. /\ b \in Text /\ Len(b) = q - p + 1
      /\ \A i \in CRLFs(b) : p + i - 1 \in CRLFs(s) /\ p + i <= q
      /\ \A i \in CRLFs(s) : p <= i /\ i + 1 <= q => i - p + 1 \in CRLFs(b)
  BY Window
<1>2. /\ c \in CRLFs(b) /\ c \in Nat /\ \A j \in CRLFs(b) : c <= j
  BY <1>1, CRLFIs
<1>3. 1 <= c /\ c + 1 <= Len(b)
  BY <1>1, <1>2, CRLFsAre
<1> HIDE DEF c
<1>4. e \in CRLFs(s) /\ e + 1 <= q /\ e \in Nat /\ p <= e
  BY <1>1, <1>2, <1>3
<1>5. Complete(s, p)
  BY <1>4 DEF Complete
<1>6. EndOf(s, p) = e
  <2>1. /\ EndOf(s, p) \in CRLFs(s) /\ EndOf(s, p) \in Nat /\ p <= EndOf(s, p)
        /\ EndOf(s, p) <= e
    BY <1>4, <1>5, EndIs
  <2>2. EndOf(s, p) - p + 1 \in CRLFs(b)
    BY <1>1, <1>4, <2>1
  <2>3. c <= EndOf(s, p) - p + 1
    BY <1>2, <2>2
  <2>4. EndOf(s, p) \in Nat /\ EndOf(s, p) <= p + c - 1
    BY <2>1
  <2>5. c \in Nat
    BY <1>2
  <2> QED
    BY <2>3, <2>4, <2>5
<1>7. SubSeq(b, 1, c - 1) = LineAt(s, p)
  <2>1. c - 1 \in Int /\ c - 1 <= q - p + 1 /\ p + 1 - 1 = p /\ p + (c - 1) - 1 = e - 1
    BY <1>1, <1>2, <1>3
  <2>2. SubSeq(b, 1, c - 1) = SubSeq(s, p + 1 - 1, p + (c - 1) - 1)
    BY <2>1, PartOfPart, SMTT(30)
  <2> QED
    BY <1>6, <2>1, <2>2 DEF LineAt
<1>8. SubSeq(b, c + 2, Len(b)) = SubSeq(s, e + 2, q)
  <2> DEFINE m == c + 2
             n == Len(b)
  <2>1. m \in Int /\ 1 <= m /\ n \in Int /\ n <= q - p + 1
        /\ p + m - 1 = e + 2 /\ p + n - 1 = q
    BY <1>1, <1>2
  <2> HIDE DEF m, n
  <2>2. SubSeq(b, m, n) = SubSeq(s, p + m - 1, p + n - 1)
    BY <2>1, PartOfPart
  <2>3. SubSeq(b, m, n) = SubSeq(s, e + 2, q)
    BY <2>1, <2>2
  <2> QED
    BY <2>3 DEF m, n
<1> QED
  BY <1>4, <1>5, <1>6, <1>7, <1>8 DEF c, Seen

\* std::find finds the colon of a header line.
LEMMA ColonIs ==
    ASSUME NEW line \in Text, NEW colon, colon = Find(line, 1, Len(line), ":")
    PROVE  /\ colon <= Len(line) <=> HasColon(line)
           /\ HasColon(line) => colon = Colon(line) /\ colon \in 1..Len(line)
           /\ colon \in Nat
<1>1. Len(line) \in Nat /\ DOMAIN line = 1..Len(line)
  BY DEF Text
<1>2. /\ colon \in 1..Len(line) + 1
      /\ colon <= Len(line) => line[colon] = ":"
      /\ \A i \in 1..colon - 1 : line[i] # ":"
  BY <1>1, FindIs
<1>3. colon <= Len(line) <=> HasColon(line)
  BY <1>1, <1>2 DEF HasColon
<1>4. HasColon(line) => colon = Colon(line)
  <2>1. {i \in 1..Len(line) : line[i] = ":"} = {i \in DOMAIN line : line[i] = ":"}
    BY <1>1
  <2> QED
    BY <1>1, <2>1 DEF HasColon, Colon, Find
<1> QED
  BY <1>1, <1>2, <1>3, <1>4

\* addHeader with the line at p makes the headers of B those of B and p.
AddsLine(s, B, p, request) ==
    addHeader(request, LineAt(s, p), Colon(LineAt(s, p)))
        = [request EXCEPT !.headers = HeadersIn(s, B \cup {p})]

\* addHeader after the header lines of a set is the headers of the set with one more line,
\* since that line is the last: its value replaces an earlier one of the same name.
LEMMA HeaderAdded ==
    ASSUME NEW s \in Text, NEW B \in SUBSET Nat, NEW p \in Nat, \A b \in B : b < p,
           LineAt(s, p) \in Text, HasColon(LineAt(s, p)),
           NEW request \in RequestType, request.headers = HeadersIn(s, B)
    PROVE  AddsLine(s, B, p, request)
<1> DEFINE line == LineAt(s, p)
           N(b) == Name(LineAt(s, b))
           old == HeadersIn(s, B)
           new == HeadersIn(s, B \cup {p})
           T(n) == {b \in B \cup {p} : N(b) = n}
           added == [h \in DOMAIN old \cup {Name(line)} |->
                        IF h = Name(line) THEN Value(line) ELSE old[h]]
<1>1. addHeader(request, line, Colon(line)) = [request EXCEPT !.headers = added]
  BY DEF addHeader, Name, Value
<1>2. DOMAIN old = {N(b) : b \in B} /\ DOMAIN new = {N(b) : b \in B \cup {p}}
  BY DEF HeadersIn
<1>3. DOMAIN new = DOMAIN old \cup {Name(line)}
  BY <1>2
<1>4. new[Name(line)] = Value(line)
  <2>1. new[Name(line)] = Value(LineAt(s, Last(T(Name(line)))))
    BY DEF HeadersIn
  <2> DEFINE L == T(Name(line))
  <2>2. \A j \in B \cup {p} : j \in Nat /\ j <= p
    OBVIOUS
  <2>3. L \subseteq B \cup {p} /\ p \in L
    OBVIOUS
  <2> HIDE DEF L
  <2>4. L \in SUBSET Nat /\ L # {} /\ \A j \in L : j <= p
    BY <2>2, <2>3
  <2>5. Last(L) \in L /\ \A j \in L : Last(L) >= j
    BY <2>4, LastIs
  <2>6. Last(L) \in Nat /\ Last(L) <= p /\ Last(L) >= p
    BY <2>3, <2>4, <2>5
  <2>7. Last(L) = p
    BY <2>6
  <2> QED
    BY <2>1, <2>7 DEF L
<1>5. ASSUME NEW h \in DOMAIN old, h # Name(line) PROVE new[h] = old[h]
  <2>1. T(h) = {b \in B : N(b) = h}
    BY <1>5
  <2>2. old[h] = Value(LineAt(s, Last({b \in B : N(b) = h})))
    BY <1>2, <1>5 DEF HeadersIn
  <2>3. new[h] = Value(LineAt(s, Last(T(h))))
    BY <1>3, <1>5 DEF HeadersIn
  <2> QED
    BY <2>1, <2>2, <2>3
<1>6. new = [h \in DOMAIN new |-> new[h]]
  BY DEF HeadersIn
<1> HIDE DEF new, old, T, N, line
<1>7. new = added
  BY <1>3, <1>4, <1>5, <1>6
<1> QED
  BY <1>1, <1>7 DEF new, line, AddsLine

-----------------------------------------------------------------------------
(* What the parser knows                                                   *)

\* The parser has read a stream from a, where a request begins, up to p.
ParserAt(s, a, p, c) ==
    /\ c \in ContextType
    /\ \/ /\ c.parseState = "kExpectRequestLine" /\ p = a
          /\ c.request = NewRequest \/ BadLineAt(s, a)
       \/ /\ c.parseState = "kExpectHeaders"
          /\ Complete(s, a) /\ IsRequestLine(LineAt(s, a))
          /\ p - 2 \in CRLFs(s) /\ a <= p - 2
          /\ \A b \in LinesAfter(s, a) : b < p => HasColon(LineAt(s, b))
          /\ c.request = [parseRequestLine(NewRequest, LineAt(s, a)).request EXCEPT
                             !.headers = HeadersIn(s, {b \in LinesAfter(s, a) : b < p})]

\* The parser goes on, with the places up to q in its buffer.
Going(s, a, q, r) ==
    /\ r \in ParserType /\ r.does = "more"
    /\ \E p \in Nat : /\ 1 <= p /\ p <= q + 1 /\ r.buf = SubSeq(s, p, q)
                      /\ ParserAt(s, a, p, r.context)

\* It has returned: with the request at a, or waiting for the rest of a line, or with a
\* line that is no request line.
Got(s, a, q, r) ==
    /\ r.context.parseState = "kGotAll" /\ IsRequestAt(s, a)
    /\ r.context.request = RequestAt(s, a)
    /\ r.buf = SubSeq(s, After(s, a), q) /\ After(s, a) <= q + 1

Waiting(s, a, q, r) ==
    \E p \in Nat : /\ 1 <= p /\ p <= q + 1 /\ r.buf = SubSeq(s, p, q)
                   /\ ParserAt(s, a, p, r.context)
                   /\ CRLFs(r.buf) = {}

Stuck(s, a, q, r) ==
    /\ r.context.parseState = "kExpectRequestLine" /\ ParserAt(s, a, a, r.context)
    /\ r.buf = SubSeq(s, a, q) /\ a <= q + 1 /\ BadLineAt(s, a)

Finished(s, a, q, r) ==
    /\ r \in ParserType
    /\ \/ r.does = "ok" /\ (Got(s, a, q, r) \/ Waiting(s, a, q, r))
       \/ r.does \in {"fail", "throw"} /\ Stuck(s, a, q, r)

\* A new request is a request without headers.
LEMMA NewRequestType ==
    /\ NewRequest \in RequestType /\ NewContext \in ContextType
    /\ NewRequest.headers = NoHeaders /\ \A s : HeadersIn(s, {}) = NoHeaders
<1>1. NoHeaders \in [{} -> Text]
  BY DEF NoHeaders
<1>2. NoHeaders \in Header
  <2>1. {} \in SUBSET Text
    OBVIOUS
  <2> QED
    BY <1>1, <2>1 DEF Header
<1>3. <<>> \in Text
  BY DEF Text
<1>4. NewRequest \in RequestType
  BY <1>2, <1>3 DEF NewRequest, RequestType
<1>5. NewContext \in ContextType
  BY <1>4 DEF NewContext, ContextType, ParseStates
<1>6. \A s : HeadersIn(s, {}) = NoHeaders
  BY DEF HeadersIn, NoHeaders
<1>7. NewRequest.headers = NoHeaders
  BY DEF NewRequest
<1> QED
  BY <1>4, <1>5, <1>6, <1>7

\* The four things a round can do with a complete line.
LEMMA RoundIs ==
    ASSUME NEW r \in ParserType, r.does = "more", findCRLF(r.buf) # 0,
           NEW line, line = SubSeq(r.buf, 1, findCRLF(r.buf) - 1),
           NEW rest, rest = SubSeq(r.buf, findCRLF(r.buf) + 2, Len(r.buf)),
           NEW first, first = parseRequestLine(r.context.request, line),
           line \in Text
    PROVE  /\ r.context.parseState = "kExpectRequestLine" =>
                 Round(r) = IF first.does = "ok"
                            THEN Result("more", "kExpectHeaders", first.request, rest)
                            ELSE Result(first.does, r.context.parseState, first.request, r.buf)
           /\ r.context.parseState # "kExpectRequestLine" =>
                 Round(r) = IF HasColon(line)
                            THEN Result("more", r.context.parseState,
                                        addHeader(r.context.request, line, Colon(line)), rest)
                            ELSE Result("ok", "kGotAll", r.context.request, rest)
<1> DEFINE colon == Find(line, 1, Len(line), ":")
<1>1. (colon <= Len(line) <=> HasColon(line)) /\ (HasColon(line) => colon = Colon(line))
  BY ColonIs
<1>2. ~(r.does # "more")
  OBVIOUS
<1>3. r.context.parseState = "kExpectRequestLine" =>
         Round(r) = IF first.does = "ok"
                    THEN Result("more", "kExpectHeaders", first.request, rest)
                    ELSE Result(first.does, r.context.parseState, first.request, r.buf)
  BY DEF Round
<1>4. r.context.parseState # "kExpectRequestLine" =>
         Round(r) = IF colon <= Len(line)
                    THEN Result("more", r.context.parseState,
                                addHeader(r.context.request, line, colon), rest)
                    ELSE Result("ok", "kGotAll", r.context.request, rest)
  BY DEF Round
<1> HIDE DEF colon
<1> QED
  BY <1>1, <1>3, <1>4

\* The lines between the beginning of a request and the line after p.
LEMMA LinesUpTo ==
    ASSUME NEW s \in Text, NEW a \in Nat, NEW p \in Nat, Complete(s, p),
           p = a \/ (p - 2 \in CRLFs(s) /\ a <= p - 2)
    PROVE  /\ p = a => {b \in LinesAfter(s, a) : b < EndOf(s, p) + 2} = {}
           /\ p # a => /\ p \in LinesAfter(s, a)
                       /\ {b \in LinesAfter(s, a) : b < EndOf(s, p) + 2}
                             = {b \in LinesAfter(s, a) : b < p} \cup {p}
<1> DEFINE e == EndOf(s, p)
<1>1. e \in CRLFs(s) /\ e \in Nat /\ p <= e /\ \A j \in CRLFs(s) : j >= p => e <= j
  BY EndIs
<1> HIDE DEF e
<1>2. CRLFs(s) \in SUBSET Nat /\ \A i \in CRLFs(s) : i + 1 \notin CRLFs(s)
  BY CRLFsAre
<1>3. \A b \in LinesAfter(s, a) : b \in Nat /\ b - 2 \in CRLFs(s) /\ b - 2 >= a
  BY LinesAfterAre
<1>4. CASE p = a
  <2>1. \A b \in LinesAfter(s, a) : ~(b < e + 2)
    BY <1>1, <1>3, <1>4
  <2> QED
    BY <1>4, <2>1 DEF e
<1>5. CASE p # a
  <2>1. p - 2 \in CRLFs(s) /\ a <= p - 2
    BY <1>5
  <2>2. p \in LinesAfter(s, a)
    BY <2>1, LinesAfterAre
  <2>3. p - 1 \notin CRLFs(s)
    <3>1. (p - 2) + 1 = p - 1
      OBVIOUS
    <3> QED
      BY <1>2, <2>1, <3>1
  <2>4. ASSUME NEW b \in LinesAfter(s, a), b < e + 2, b # p PROVE b < p
    <3>1. b \in Nat /\ b - 2 \in CRLFs(s) /\ b - 2 < e
      BY <1>1, <1>3, <2>4
    <3>2. ~(b - 2 >= p)
      BY <1>1, <3>1
    <3>3. b - 2 # p - 1
      BY <2>3, <3>1
    <3> QED
      BY <2>4, <3>1, <3>2, <3>3
  <2>5. ASSUME NEW b \in LinesAfter(s, a), b < p \/ b = p PROVE b < e + 2
    BY <1>1, <1>3, <2>5
  <2> QED
    BY <1>5, <2>2, <2>4, <2>5 DEF e
<1> QED
  BY <1>4, <1>5

\* The parts of the result of a round.
LEMMA ResultIs ==
    ASSUME NEW d, NEW t, NEW r, NEW b
    PROVE  /\ Result(d, t, r, b).does = d /\ Result(d, t, r, b).buf = b
           /\ Result(d, t, r, b).context.parseState = t
           /\ Result(d, t, r, b).context.request = r
           /\ Result(d, t, r, b).context = [parseState |-> t, request |-> r]
  BY DEF Result

\* A round without a complete line in the buffer leaves all as it is.
LEMMA RoundWaits ==
    ASSUME NEW s \in Text, NEW a \in Nat, NEW q \in Nat, q <= Len(s),
           NEW r, Going(s, a, q, r), findCRLF(r.buf) = 0
    PROVE  Finished(s, a, q, Round(r))
<1>1. r \in ParserType /\ r.does = "more"
  BY DEF Going
<1>2. PICK p \in Nat : /\ 1 <= p /\ p <= q + 1 /\ r.buf = SubSeq(s, p, q)
                       /\ ParserAt(s, a, p, r.context)
  BY DEF Going
<1>3. Round(r) = Result("ok", r.context.parseState, r.context.request, r.buf)
  BY <1>1 DEF Round
<1>4. r.context = [parseState |-> r.context.parseState, request |-> r.context.request]
  BY <1>1 DEF ParserType, ContextType
<1>5. Round(r).does = "ok" /\ Round(r).context = r.context /\ Round(r).buf = r.buf
  BY <1>3, <1>4, ResultIs
<1>6. CRLFs(r.buf) = {}
  <2>1. r.buf \in Text
    BY <1>1 DEF ParserType
  <2>2. \A i \in CRLFs(r.buf) : i # 0
    BY <2>1, CRLFsAre
  <2> QED
    BY <2>1, <2>2, CRLFIs
<1>7. Round(r) \in ParserType
  BY <1>1, RoundType
<1> QED
  BY <1>2, <1>5, <1>6, <1>7 DEF Finished, Waiting

\* A round that takes a request line, or stops at a line that is none.
LEMMA RoundRequestLine ==
    ASSUME NEW s \in Text, NEW a \in Nat, 1 <= a, NEW q \in Nat, q <= Len(s), a <= q + 1,
           NEW r \in ParserType, r.does = "more", r.buf = SubSeq(s, a, q),
           ParserAt(s, a, a, r.context), r.context.parseState = "kExpectRequestLine",
           findCRLF(r.buf) # 0
    PROVE  \/ Finished(s, a, q, Round(r))
           \/ Going(s, a, q, Round(r)) /\ Len(Round(r).buf) < Len(r.buf)
<1> DEFINE line == LineAt(s, a)
           rest == SubSeq(s, EndOf(s, a) + 2, q)
           request == r.context.request
           first == parseRequestLine(request, line)
           next == EndOf(s, a) + 2
<1>1. /\ Complete(s, a) /\ EndOf(s, a) = a + findCRLF(r.buf) - 1 /\ EndOf(s, a) + 1 <= q
      /\ SubSeq(r.buf, 1, findCRLF(r.buf) - 1) = line
      /\ SubSeq(r.buf, findCRLF(r.buf) + 2, Len(r.buf)) = rest
  BY LineSeen, ZenonT(30) DEF Seen
<1>2. /\ EndOf(s, a) \in CRLFs(s) /\ EndOf(s, a) \in Nat /\ a <= EndOf(s, a)
  BY <1>1, EndIs
<1>3. line \in Text
  BY <1>1, LineIs
<1>4. request \in RequestType /\ NewRequest \in RequestType
  BY NewRequestType DEF ParserType, ContextType
<1>5. /\ first.request \in RequestType /\ first.does \in {"ok", "fail", "throw"}
      /\ first.does = parseRequestLine(NewRequest, line).does
  BY <1>3, <1>4, RequestLine
<1>6. /\ r.buf \in Text /\ Len(r.buf) = q - a + 1
  BY Window
<1>7. Round(r) = IF first.does = "ok" THEN Result("more", "kExpectHeaders", first.request, rest)
                 ELSE Result(first.does, "kExpectRequestLine", first.request, r.buf)
  BY <1>1, <1>3, RoundIs
<1>8. Round(r) \in ParserType
  BY RoundType
<1>9. rest = SubSeq(s, next, q)
  OBVIOUS
<1> HIDE DEF first, rest
<1>10. CASE first.does = "ok"
  <2>1. Round(r) = Result("more", "kExpectHeaders", first.request, rest)
    BY <1>7, <1>10
  <2>2. request = NewRequest
    BY <1>5, <1>10 DEF ParserAt, BadLineAt, IsRequestLine
  <2>3. IsRequestLine(line)
    BY <1>5, <1>10 DEF IsRequestLine
  <2>4. next \in Nat /\ 1 <= next /\ next <= q + 1 /\ next - 2 = EndOf(s, a) /\ next > a
    BY <1>1, <1>2
  <2>5. {b \in LinesAfter(s, a) : b < next} = {}
    BY <1>1, LinesUpTo
  <2>6. first.request.headers = NoHeaders
    BY <1>3, <1>4, <2>2, RequestLine, NewRequestType DEF first
  <2>7. first.request = [first.request EXCEPT !.headers = HeadersIn(s, {})]
    <3>1. HeadersIn(s, {}) = NoHeaders
      BY NewRequestType
    <3> QED
      BY <1>5, <2>6, <3>1 DEF RequestType
  <2>8. Round(r).context.request =
           [parseRequestLine(NewRequest, line).request EXCEPT
               !.headers = HeadersIn(s, {b \in LinesAfter(s, a) : b < next})]
    <3>1. Round(r).context.request = first.request
      BY <2>1 DEF Result
    <3> QED
      BY <2>2, <2>5, <2>7, <3>1 DEF first
  <2>9. Round(r).context \in ContextType /\ Round(r).context.parseState = "kExpectHeaders"
        /\ Round(r).does = "more" /\ Round(r).buf = SubSeq(s, next, q)
    <3>1. /\ Round(r).context.parseState = "kExpectHeaders"
          /\ Round(r).does = "more" /\ Round(r).buf = rest
      BY <2>1 DEF Result
    <3>2. Round(r).context \in ContextType
      BY <1>8 DEF ParserType
    <3> QED
      BY <1>9, <3>1, <3>2
  <2> HIDE DEF next
  <2>10. ParserAt(s, a, next, Round(r).context)
    BY <1>1, <1>2, <2>3, <2>4, <2>5, <2>8, <2>9 DEF ParserAt
  <2>11. Going(s, a, q, Round(r))
    BY <1>8, <2>4, <2>9, <2>10 DEF Going
  <2>12. Len(Round(r).buf) = q - next + 1
    BY <2>4, <2>9, Window
  <2>13. Len(Round(r).buf) < Len(r.buf)
    BY <1>6, <2>4, <2>12
  <2> QED
    BY <2>11, <2>13
<1>11. CASE first.does # "ok"
  <2>1. Round(r) = Result(first.does, "kExpectRequestLine", first.request, r.buf)
    BY <1>7, <1>11
  <2>2. BadLineAt(s, a)
    BY <1>1, <1>5, <1>11 DEF BadLineAt, IsRequestLine
  <2>3. /\ Round(r).does = first.does /\ Round(r).context.parseState = "kExpectRequestLine"
        /\ Round(r).buf = r.buf /\ Round(r).context \in ContextType
    BY <1>8, <2>1 DEF ParserType, Result
  <2>4. ParserAt(s, a, a, Round(r).context)
    BY <2>2, <2>3 DEF ParserAt
  <2>5. Stuck(s, a, q, Round(r))
    BY <2>2, <2>3, <2>4 DEF Stuck
  <2>6. Round(r).does \in {"fail", "throw"}
    BY <1>5, <1>11, <2>3
  <2> QED
    BY <1>8, <2>5, <2>6 DEF Finished
<1> QED
  BY <1>10, <1>11

\* A round that takes a header line, or the line that ends the headers.
LEMMA RoundHeader ==
    ASSUME NEW s \in Text, NEW a \in Nat, 1 <= a, NEW q \in Nat, q <= Len(s),
           NEW p \in Nat, 1 <= p, p <= q + 1,
           NEW r \in ParserType, r.does = "more", r.buf = SubSeq(s, p, q),
           ParserAt(s, a, p, r.context), r.context.parseState # "kExpectRequestLine",
           findCRLF(r.buf) # 0
    PROVE  \/ Finished(s, a, q, Round(r))
           \/ Going(s, a, q, Round(r)) /\ Len(Round(r).buf) < Len(r.buf)
<1> DEFINE line == LineAt(s, p)
           rest == SubSeq(s, EndOf(s, p) + 2, q)
           request == r.context.request
           next == EndOf(s, p) + 2
           base == parseRequestLine(NewRequest, LineAt(s, a)).request
           before == {b \in LinesAfter(s, a) : b < p}
<1>1. /\ Complete(s, p) /\ EndOf(s, p) = p + findCRLF(r.buf) - 1 /\ EndOf(s, p) + 1 <= q
      /\ SubSeq(r.buf, 1, findCRLF(r.buf) - 1) = line
      /\ SubSeq(r.buf, findCRLF(r.buf) + 2, Len(r.buf)) = rest
  <2>1. Seen(s, p, q, r.buf)
    BY LineSeen
  <2> QED
    BY <2>1 DEF Seen
<1>2. /\ EndOf(s, p) \in CRLFs(s) /\ EndOf(s, p) \in Nat /\ p <= EndOf(s, p)
  BY <1>1, EndIs
<1>3. line \in Text
  BY <1>1, LineIs
<1>4. /\ r.context.parseState = "kExpectHeaders"
      /\ Complete(s, a) /\ IsRequestLine(LineAt(s, a))
      /\ p - 2 \in CRLFs(s) /\ a <= p - 2
      /\ \A b \in LinesAfter(s, a) : b < p => HasColon(LineAt(s, b))
      /\ request = [base EXCEPT !.headers = HeadersIn(s, before)]
  BY DEF ParserAt
<1>5. p # a /\ p \in LinesAfter(s, a)
      /\ {b \in LinesAfter(s, a) : b < next} = before \cup {p}
  <2>1. p # a
    BY <1>4
  <2> QED
    BY <1>1, <1>4, <2>1, LinesUpTo
<1>6. /\ r.buf \in Text /\ Len(r.buf) = q - p + 1
  BY Window
<1>7. Round(r) = IF HasColon(line)
                 THEN Result("more", r.context.parseState,
                             addHeader(request, line, Colon(line)), rest)
                 ELSE Result("ok", "kGotAll", request, rest)
  BY <1>1, <1>3, RoundIs
<1>8. Round(r) \in ParserType
  BY RoundType
<1>9. next \in Nat /\ 1 <= next /\ next <= q + 1 /\ next - 2 = EndOf(s, p) /\ next > p
      /\ a <= next - 2
  BY <1>1, <1>2, <1>4
<1>10. base \in RequestType /\ request \in RequestType
  <2>1. LineAt(s, a) \in Text
    BY <1>4, LineIs
  <2>2. base \in RequestType
    BY <2>1, RequestLine, NewRequestType
  <2> QED
    BY <2>2 DEF ParserType, ContextType
<1>13. rest = SubSeq(s, next, q)
  OBVIOUS
<1> HIDE DEF base, rest
<1>11. CASE HasColon(line)
  <2>1. Round(r) = Result("more", "kExpectHeaders", addHeader(request, line, Colon(line)), rest)
    BY <1>4, <1>7, <1>11
  <2>2. request.headers = HeadersIn(s, before)
    BY <1>4, <1>10 DEF RequestType
  <2>3. before \in SUBSET Nat /\ \A b \in before : b < p
    BY LinesAfterAre
  <2>4. addHeader(request, line, Colon(line))
           = [request EXCEPT !.headers = HeadersIn(s, before \cup {p})]
    <3> HIDE DEF before, request
    <3>1. AddsLine(s, before, p, request)
      BY <1>3, <1>10, <1>11, <2>2, <2>3, HeaderAdded
    <3> QED
      BY <3>1 DEF AddsLine
  <2>5. [request EXCEPT !.headers = HeadersIn(s, before \cup {p})]
           = [base EXCEPT !.headers = HeadersIn(s, before \cup {p})]
    <3> HIDE DEF before
    <3> QED
      BY <1>4, <1>10 DEF RequestType
  <2>6. Round(r).context.request = [base EXCEPT !.headers =
           HeadersIn(s, {b \in LinesAfter(s, a) : b < next})]
    <3>1. Round(r).context.request = addHeader(request, line, Colon(line))
      BY <2>1 DEF Result
    <3> QED
      BY <1>5, <2>4, <2>5, <3>1
  <2>7. \A b \in LinesAfter(s, a) : b < next => HasColon(LineAt(s, b))
    BY <1>4, <1>5, <1>11
  <2>8. Round(r).context \in ContextType /\ Round(r).context.parseState = "kExpectHeaders"
        /\ Round(r).does = "more" /\ Round(r).buf = SubSeq(s, next, q)
    <3>1. /\ Round(r).context.parseState = "kExpectHeaders"
          /\ Round(r).does = "more" /\ Round(r).buf = rest
      <4> HIDE DEF line, request
      <4> QED
        BY <2>1 DEF Result
    <3>2. Round(r).context \in ContextType
      BY <1>8 DEF ParserType
    <3> QED
      BY <1>13, <3>1, <3>2
  <2> HIDE DEF next
  <2>9. ParserAt(s, a, next, Round(r).context)
    BY <1>2, <1>4, <1>9, <2>6, <2>7, <2>8 DEF ParserAt, base
  <2>10. Going(s, a, q, Round(r))
    BY <1>8, <1>9, <2>8, <2>9 DEF Going
  <2>11. Len(Round(r).buf) = q - next + 1
    BY <1>9, <2>8, Window
  <2>12. Len(Round(r).buf) < Len(r.buf)
    BY <1>6, <1>9, <2>11
  <2> QED
    BY <2>10, <2>12
<1>12. CASE ~HasColon(line)
  <2>1. Round(r) = Result("ok", "kGotAll", request, rest)
    BY <1>7, <1>12
  <2>2. /\ Round(r).does = "ok" /\ Round(r).context.parseState = "kGotAll"
        /\ Round(r).context.request = request /\ Round(r).buf = rest
    <3> HIDE DEF request
    <3> QED
      BY <2>1 DEF Result
  <2>3. p \in LastLines(s, a)
    BY <1>5, <1>12 DEF LastLines
  <2>4. First(LastLines(s, a)) = p
    <3>1. /\ First(LastLines(s, a)) \in LinesAfter(s, a)
          /\ ~HasColon(LineAt(s, First(LastLines(s, a))))
      BY <2>3, LastLineIs
    <3>2. LastLines(s, a) \in SUBSET Nat
      BY LinesAfterAre DEF LastLines
    <3>3. First(LastLines(s, a)) <= p /\ First(LastLines(s, a)) \in Nat
      BY <2>3, <3>2, FirstIs
    <3>4. ~(First(LastLines(s, a)) < p)
      BY <1>4, <3>1
    <3> QED
      BY <3>3, <3>4
  <2>5. IsRequestAt(s, a)
    BY <1>4, <2>3 DEF IsRequestAt
  <2>6. After(s, a) = next
    BY <2>4, <2>5 DEF After
  <2>7. request = RequestAt(s, a)
    BY <1>4, <2>4 DEF RequestAt, base
  <2>8. Got(s, a, q, Round(r))
    BY <1>9, <1>13, <2>2, <2>5, <2>6, <2>7 DEF Got
  <2> QED
    BY <1>8, <2>2, <2>8 DEF Finished
<1> QED
  BY <1>11, <1>12

\* A round goes on with less in the buffer, or the parser returns.
LEMMA RoundKeeps ==
    ASSUME NEW s \in Text, NEW a \in Nat, 1 <= a, NEW q \in Nat, q <= Len(s),
           NEW r, Going(s, a, q, r)
    PROVE  \/ Finished(s, a, q, Round(r))
           \/ Going(s, a, q, Round(r)) /\ Len(Round(r).buf) < Len(r.buf)
<1>1. r \in ParserType /\ r.does = "more"
  BY DEF Going
<1>2. PICK p \in Nat : /\ 1 <= p /\ p <= q + 1 /\ r.buf = SubSeq(s, p, q)
                       /\ ParserAt(s, a, p, r.context)
  BY DEF Going
<1>3. CASE findCRLF(r.buf) = 0
  BY <1>3, RoundWaits
<1>4. CASE findCRLF(r.buf) # 0 /\ r.context.parseState = "kExpectRequestLine"
  <2>1. p = a
    BY <1>2, <1>4 DEF ParserAt
  <2> QED
    BY <1>1, <1>2, <1>4, <2>1, RoundRequestLine
<1>5. CASE findCRLF(r.buf) # 0 /\ r.context.parseState # "kExpectRequestLine"
  BY <1>1, <1>2, <1>5, RoundHeader
<1> QED
  BY <1>3, <1>4, <1>5

\* parseRequest returns, whatever it is called with: every round but the last takes a
\* line, so that there are at most as many rounds as tokens in the buffer and one more.
LEMMA ParseFinishes ==
    ASSUME NEW s \in Text, NEW a \in Nat, 1 <= a, NEW q \in Nat, q <= Len(s),
           NEW p \in Nat, 1 <= p, p <= q + 1, NEW c, ParserAt(s, a, p, c),
           NEW b, b = SubSeq(s, p, q)
    PROVE  Finished(s, a, q, parseRequest(c, b))
<1> DEFINE f == Rounds(c, b)
           L == Len(b)
<1>1. c \in ContextType
  BY DEF ParserAt
<1>2. b \in Text /\ L \in Nat
  BY Window DEF Text
<1>3. /\ f \in [Nat -> ParserType]
      /\ f[0] = Result("more", c.parseState, c.request, b)
      /\ \A n \in Nat : f[n + 1] = Round(f[n])
  BY <1>1, <1>2, RoundsAre
<1> HIDE DEF f, L
<1> DEFINE Fin(n) == Finished(s, a, q, f[n])
           Left(n) == Len(f[n].buf)
           Go(n) == Going(s, a, q, f[n]) /\ Left(n) + n <= L
           Ns == {n \in Nat : Fin(n) \/ Go(n)}
<1>9. ASSUME NEW n \in Nat PROVE Left(n) \in Nat
  <2>1. f[n] \in ParserType
    BY <1>3
  <2>2. f[n].buf \in Text
    BY <2>1 DEF ParserType
  <2> QED
    BY <2>2 DEF Text
<1>4. 0 \in Ns
  <2>1. f[0].does = "more" /\ f[0].buf = b /\ f[0].context = c
    <3>1. c = [parseState |-> c.parseState, request |-> c.request]
      BY <1>1 DEF ContextType
    <3> QED
      BY <1>3, <3>1, SMTT(30) DEF Result
  <2>2. Going(s, a, q, f[0])
    BY <1>3, <2>1 DEF Going
  <2>3. Len(f[0].buf) + 0 <= L
    BY <1>2, <2>1 DEF L
  <2> QED
    BY <2>2, <2>3
<1>5. ASSUME NEW n \in Nat, n \in Ns PROVE n + 1 \in Ns
  <2>1. CASE Fin(n)
    <3>1. f[n].does # "more"
      BY <2>1 DEF Finished
    <3>2. f[n + 1] = f[n]
      BY <1>3, <3>1 DEF Round
    <3> QED
      BY <2>1, <3>2
  <2>2. CASE Go(n)
    <3>1. \/ Finished(s, a, q, Round(f[n]))
          \/ Going(s, a, q, Round(f[n])) /\ Len(Round(f[n]).buf) < Len(f[n].buf)
      BY <2>2, RoundKeeps
    <3>2. f[n + 1] = Round(f[n])
      BY <1>3
    <3>3. Left(n) \in Nat /\ Left(n + 1) \in Nat
      <4>1. n + 1 \in Nat
        OBVIOUS
      <4> QED
        BY <1>9, <4>1
    <3>4. Left(n) + n <= L
      BY <2>2
    <3>5. Finished(s, a, q, f[n + 1]) \/ (Going(s, a, q, f[n + 1]) /\ Left(n + 1) < Left(n))
      BY <3>1, <3>2
    <3> HIDE DEF Left
    <3>6. Left(n + 1) < Left(n) => Left(n + 1) + (n + 1) <= L
      BY <1>2, <3>3, <3>4
    <3> QED
      BY <3>5, <3>6
  <2> QED
    BY <1>5, <2>1, <2>2
<1>6. \A n \in Nat : n \in Ns
  <2> HIDE DEF Ns
  <2> QED
    BY <1>4, <1>5, Induction
<1>7. ~Go(L + 1)
  <2>1. Left(L + 1) \in Nat
    BY <1>2, <1>9
  <2> HIDE DEF Left
  <2> QED
    BY <1>2, <2>1
<1>8. Fin(L + 1)
  <2>1. L + 1 \in Ns
    <3> HIDE DEF Ns
    <3> QED
      BY <1>2, <1>6
  <2> QED
    BY <1>7, <2>1
<1> QED
  BY <1>8 DEF parseRequest, f, L

-----------------------------------------------------------------------------
(* Requests that the parser cannot find yet                                *)

\* Two parts of a text side by side are a part of it.
LEMMA PartsJoin ==
    ASSUME NEW s \in Text, NEW p \in Nat, NEW q \in Nat, NEW m \in Nat,
           1 <= p, p <= q + 1, q <= m, m <= Len(s)
    PROVE  SubSeq(s, p, q) \o SubSeq(s, q + 1, m) = SubSeq(s, p, m)
<1> DEFINE x == SubSeq(s, p, q)
           y == SubSeq(s, q + 1, m)
           z == SubSeq(s, p, m)
<1>1. Len(s) \in Nat
  BY DEF Text
<1>2. /\ x \in Text /\ Len(x) = IF p <= q THEN q - p + 1 ELSE 0
      /\ \A i \in 1..q - p + 1 : x[i] = s[p + i - 1]
  <2>1. q <= Len(s)
    BY <1>1
  <2> QED
    BY <1>1, <2>1, PartIs
<1>3. /\ z \in Text /\ Len(z) = IF p <= m THEN m - p + 1 ELSE 0
      /\ \A i \in 1..m - p + 1 : z[i] = s[p + i - 1]
  BY <1>1, PartIs
<1>4. /\ y \in Text /\ Len(y) = IF q + 1 <= m THEN m - (q + 1) + 1 ELSE 0
      /\ \A i \in 1..m - (q + 1) + 1 : y[i] = s[(q + 1) + i - 1]
  <2> DEFINE k == q + 1
  <2>1. k \in Int /\ 1 <= k
    OBVIOUS
  <2> HIDE DEF k
  <2>2. /\ SubSeq(s, k, m) \in Text /\ Len(SubSeq(s, k, m)) = IF k <= m THEN m - k + 1 ELSE 0
        /\ \A i \in 1..m - k + 1 : SubSeq(s, k, m)[i] = s[k + i - 1]
    BY <1>1, <2>1, PartIs
  <2> QED
    BY <2>2 DEF k
<1> HIDE DEF x, y, z
<1>5. Len(x) = q - p + 1 /\ Len(y) = m - q /\ Len(z) = m - p + 1
  BY <1>2, <1>3, <1>4
<1>6. /\ x \o y \in Text /\ Len(x \o y) = Len(x) + Len(y)
      /\ \A i \in 1..Len(x) : (x \o y)[i] = x[i]
      /\ \A i \in Len(x) + 1..Len(x) + Len(y) : (x \o y)[i] = y[i - Len(x)]
  <2>1. x \in Seq(STRING) /\ y \in Seq(STRING)
    BY <1>2, <1>4 DEF Text
  <2>2. /\ x \o y \in Seq(STRING) /\ Len(x \o y) = Len(x) + Len(y)
        /\ \A i \in 1..Len(x) + Len(y) :
              (x \o y)[i] = IF i <= Len(x) THEN x[i] ELSE y[i - Len(x)]
    BY <2>1, ConcatProperties
  <2>3. Len(x) \in Nat /\ Len(y) \in Nat
    BY <2>1
  <2> QED
    BY <2>2, <2>3 DEF Text
<1>7. ASSUME NEW i \in 1..m - p + 1 PROVE (x \o y)[i] = z[i]
  <2>1. CASE i <= q - p + 1
    <3>1. i \in 1..q - p + 1 /\ i \in 1..Len(x)
      BY <1>5, <2>1
    <3> QED
      BY <1>2, <1>3, <1>6, <3>1
  <2>2. CASE ~(i <= q - p + 1)
    <3> DEFINE j == i - Len(x)
    <3>1. i \in Len(x) + 1..Len(x) + Len(y) /\ j \in 1..m - (q + 1) + 1
          /\ (q + 1) + j - 1 = p + i - 1
      BY <1>5, <2>2
    <3>2. (x \o y)[i] = y[j]
      BY <1>6, <3>1
    <3> HIDE DEF j
    <3>3. y[j] = s[(q + 1) + j - 1]
      BY <1>4, <3>1
    <3> QED
      BY <1>3, <3>1, <3>2, <3>3
  <2> QED
    BY <2>1, <2>2
<1>8. Len(x \o y) = Len(z) /\ Len(z) = m - p + 1
  BY <1>5, <1>6
<1>9. x \o y = z
  <2>1. \A i \in 1..Len(z) : (x \o y)[i] = z[i]
    BY <1>7, <1>8
  <2> QED
    BY <1>3, <1>6, <1>8, <2>1, SeqEqual DEF Text
<1> QED
  BY <1>9 DEF x, y, z

\* A parser that has returned without a request is not in kGotAll.
LEMMA NotGotAll ==
    ASSUME NEW s, NEW a, NEW p, NEW c, ParserAt(s, a, p, c)
    PROVE  c.parseState \in {"kExpectRequestLine", "kExpectHeaders"} /\ ~isGotAll(c)
  BY DEF ParserAt, isGotAll

\* When the parser waits for the rest of a line, the request at a is not complete in what
\* it was given: the line that ends the headers of one would be in the buffer.
LEMMA WaitingForRest ==
    ASSUME NEW s \in Text, NEW a \in Nat, 1 <= a, NEW q \in Nat, q <= Len(s),
           NEW p \in Nat, 1 <= p, p <= q + 1, NEW c, ParserAt(s, a, p, c),
           NEW b, b = SubSeq(s, p, q), CRLFs(b) = {}, IsRequestAt(s, a)
    PROVE  After(s, a) > q + 1
<1> DEFINE l == First(LastLines(s, a))
<1>1. l \in LinesAfter(s, a) /\ ~HasColon(LineAt(s, l))
  BY LastLineIs DEF IsRequestAt
<1>2. After(s, a) = EndOf(s, l) + 2
  BY DEF After
<1> HIDE DEF l
<1>3. l \in Nat /\ l >= a + 2 /\ Complete(s, l)
  BY <1>1, LinesAfterAre
<1>4. EndOf(s, l) \in CRLFs(s) /\ EndOf(s, l) \in Nat /\ l <= EndOf(s, l)
  BY <1>3, EndIs
<1>5. p <= l
  <2>1. CASE c.parseState = "kExpectRequestLine"
    BY <1>3, <2>1 DEF ParserAt
  <2>2. CASE c.parseState # "kExpectRequestLine"
    <3>1. ~(l < p)
      BY <1>1, <2>2 DEF ParserAt
    <3> QED
      BY <1>3, <3>1
  <2> QED
    BY <2>1, <2>2
<1>6. ~(EndOf(s, l) + 1 <= q)
  <2>1. HasCRLFs(s, p, q, b)
    BY WindowHas
  <2>2. p <= EndOf(s, l)
    BY <1>3, <1>4, <1>5
  <2> QED
    BY <1>4, <2>1, <2>2 DEF HasCRLFs
<1> QED
  BY <1>2, <1>4, <1>6

\* parseRequest gets a request exactly if there is one at a that is complete in the buffer.
LEMMA GotIffRequest ==
    ASSUME NEW s \in Text, NEW a \in Nat, 1 <= a, NEW q \in Nat, q <= Len(s),
           NEW r, Finished(s, a, q, r)
    PROVE  /\ isGotAll(r.context) <=> IsRequestAt(s, a) /\ After(s, a) <= q + 1
           /\ isGotAll(r.context) => r.does = "ok" /\ Got(s, a, q, r)
           /\ ~isGotAll(r.context) => Waiting(s, a, q, r) \/ Stuck(s, a, q, r)
           /\ ~isGotAll(r.context) /\ r.does # "ok" => Stuck(s, a, q, r)
<1>1. CASE Got(s, a, q, r)
  BY <1>1 DEF Got, isGotAll, Finished, Stuck
<1>2. CASE Waiting(s, a, q, r)
  <2>1. PICK p \in Nat : /\ 1 <= p /\ p <= q + 1 /\ r.buf = SubSeq(s, p, q)
                         /\ ParserAt(s, a, p, r.context) /\ CRLFs(r.buf) = {}
    BY <1>2 DEF Waiting
  <2>2. ~isGotAll(r.context)
    BY <2>1, NotGotAll
  <2>3. IsRequestAt(s, a) => After(s, a) > q + 1
    BY <2>1, WaitingForRest
  <2>4. After(s, a) \in Nat
    BY AfterIs
  <2> QED
    BY <1>2, <2>2, <2>3, <2>4 DEF Finished
<1>3. CASE Stuck(s, a, q, r)
  <2>1. ~isGotAll(r.context) /\ ~IsRequestAt(s, a)
    BY <1>3 DEF Stuck, isGotAll, BadLineAt, IsRequestAt
  <2> QED
    BY <1>3, <2>1
<1> QED
  BY <1>1, <1>2, <1>3 DEF Finished

-----------------------------------------------------------------------------
(* The server                                                              *)

Reply == [status : {"200", "301", "404", "400"},
          headers : SUBSET {"Connection: close", "Content-Length", "Location", "Content-Type"}]

\* Where the request that the parser is at begins.
Start == RequestStarts(sent)[Len(handled)]

\* The buffer holds the places p to q of the stream, and the parser is at p.
At(p, q) ==
    /\ 1 <= p /\ p <= q + 1 /\ q <= Len(sent)
    /\ stream = SubSeq(sent, q + 1, Len(sent)) /\ buf = SubSeq(sent, p, q)
    /\ ParserAt(sent, Start, p, context)

\* What a message that handled no request leaves: part of a line, or a line that is no
\* request line.
NothingWaits == ~gotOne => CRLFs(buf) = {} \/ BadLineAt(sent, Start)

\* The inductive invariant of the parser.
ParseInv ==
    /\ sent \in Text
    /\ handled \in Seq(RequestType)
    /\ \E p \in Nat : \E q \in Nat : At(p, q)
    /\ \A k \in 1..Len(handled) : /\ IsRequestAt(sent, RequestStarts(sent)[k - 1])
                                  /\ handled[k] = RequestAt(sent, RequestStarts(sent)[k - 1])
    /\ NothingWaits

\* What onMessage gives the parser is the stream up to another place.
LEMMA MessageIs ==
    ASSUME sent \in Text, NEW p \in Nat, NEW q \in Nat, At(p, q), NEW n \in 1..Len(stream)
    PROVE  /\ q + n \in Nat /\ q + n <= Len(sent)
           /\ buf \o SubSeq(stream, 1, n) = SubSeq(sent, p, q + n)
           /\ SubSeq(stream, n + 1, Len(stream)) = SubSeq(sent, (q + n) + 1, Len(sent))
<1> DEFINE L == Len(sent)
           k == q + 1
<1>1. L \in Nat
  BY DEF Text
<1>2. 1 <= p /\ p <= q + 1 /\ q <= L /\ stream = SubSeq(sent, k, L) /\ buf = SubSeq(sent, p, q)
  BY DEF At
<1>3. k \in Int /\ 1 <= k /\ k <= L + 1 /\ L <= Len(sent)
  BY <1>1, <1>2
<1> HIDE DEF k
<1>4. Len(stream) = L - k + 1
  <2>1. Len(stream) = IF k <= L THEN L - k + 1 ELSE 0
    <3> HIDE DEF L
    <3> QED
      BY <1>1, <1>2, <1>3, PartIs
  <2> QED
    BY <1>1, <1>3, <2>1
<1> HIDE DEF L
<1>5. n \in Nat /\ 1 <= n /\ n <= L - k + 1 /\ q + n \in Nat /\ q + n <= L
  BY <1>1, <1>3, <1>4 DEF k
<1>6. SubSeq(stream, 1, n) = SubSeq(sent, k, q + n)
  <2>1. SubSeq(SubSeq(sent, k, L), 1, n) = SubSeq(sent, k + 1 - 1, k + n - 1)
    BY <1>1, <1>3, <1>5, PartOfPart DEF L
  <2>2. k + 1 - 1 = k /\ k + n - 1 = q + n
    BY <1>3, <1>5 DEF k
  <2> QED
    BY <1>2, <2>1, <2>2
<1>7. buf \o SubSeq(stream, 1, n) = SubSeq(sent, p, q + n)
  <2> DEFINE m == q + n
  <2>1. m \in Nat /\ q <= m /\ m <= Len(sent)
    BY <1>5 DEF L
  <2> HIDE DEF m
  <2>2. SubSeq(sent, p, q) \o SubSeq(sent, q + 1, m) = SubSeq(sent, p, m)
    BY <1>2, <2>1, PartsJoin
  <2> QED
    BY <1>2, <1>6, <2>2 DEF m, k
<1>8. SubSeq(stream, n + 1, Len(stream)) = SubSeq(sent, (q + n) + 1, L)
  <2> DEFINE x == n + 1
             y == L - k + 1
  <2>1. x \in Int /\ 1 <= x /\ y \in Int /\ y <= L - k + 1
        /\ k + x - 1 = (q + n) + 1 /\ k + y - 1 = L
    BY <1>1, <1>3, <1>5 DEF k
  <2> HIDE DEF x, y
  <2>2. SubSeq(SubSeq(sent, k, L), x, y) = SubSeq(sent, k + x - 1, k + y - 1)
    BY <1>1, <1>3, <2>1, PartOfPart DEF L
  <2>3. SubSeq(stream, x, y) = SubSeq(sent, (q + n) + 1, L)
    BY <1>2, <2>1, <2>2
  <2> QED
    BY <1>4, <2>3 DEF x, y
<1> QED
  BY <1>5, <1>7, <1>8 DEF L

\* Init satisfies the invariant.
LEMMA ParseInit == Init => ParseInv
<1> SUFFICES ASSUME Init PROVE ParseInv
  OBVIOUS
<1>1. sent \in Text /\ Len(sent) \in Nat
  BY StreamsAssumption DEF Init, Text
<1>2. handled = <<>> /\ Len(handled) = 0
  BY DEF Init
<1>3. Start = 1
  BY <1>1, <1>2, StartsAre DEF Start
<1>4. SubSeq(sent, 1, Len(sent)) = sent /\ SubSeq(sent, 1, 0) = <<>>
  BY <1>1 DEF Text
<1>5. ParserAt(sent, 1, 1, context)
  <2>1. context = NewContext /\ NewContext \in ContextType
    BY NewRequestType DEF Init
  <2> QED
    BY <2>1 DEF ParserAt, NewContext
<1>6. At(1, 0)
  BY <1>1, <1>3, <1>4, <1>5 DEF At, Init
<1>7. \E p \in Nat : \E q \in Nat : At(p, q)
  BY <1>6
<1>8. CRLFs(buf) = {}
  BY DEF Init, CRLFs
<1>9. handled \in Seq(RequestType)
  BY <1>2
<1> QED
  BY <1>1, <1>2, <1>7, <1>8, <1>9 DEF ParseInv, NothingWaits

\* The parser finds where it is what the next call of onMessage needs.
LEMMA MessageFinishes ==
    ASSUME ParseInv, NEW n \in 1..Len(stream)
    PROVE  /\ Start \in Nat /\ 1 <= Start
           /\ \E q \in Nat :
                 /\ q <= Len(sent)
                 /\ SubSeq(stream, n + 1, Len(stream)) = SubSeq(sent, q + 1, Len(sent))
                 /\ Finished(sent, Start, q, parseRequest(context, buf \o SubSeq(stream, 1, n)))
<1>1. sent \in Text
  BY DEF ParseInv
<1>2. PICK p \in Nat, q \in Nat : At(p, q)
  BY DEF ParseInv
<1>3. Start \in Nat /\ 1 <= Start
  <2>1. Len(handled) \in Nat
    BY DEF ParseInv
  <2>2. \A k \in Nat : RequestStarts(sent)[k] \in Nat \ {0}
    BY <1>1, StartsAre
  <2>3. Start \in Nat \ {0}
    BY <2>1, <2>2 DEF Start
  <2> QED
    BY <2>3
<1> DEFINE m == q + n
           b == buf \o SubSeq(stream, 1, n)
<1>4. /\ m \in Nat /\ m <= Len(sent) /\ b = SubSeq(sent, p, m)
      /\ SubSeq(stream, n + 1, Len(stream)) = SubSeq(sent, m + 1, Len(sent))
  BY <1>1, <1>2, MessageIs
<1>5. 1 <= p /\ p <= m + 1 /\ ParserAt(sent, Start, p, context)
  <2>1. n \in Nat
    <3>1. stream = SubSeq(sent, q + 1, Len(sent))
      BY <1>2 DEF At
    <3> QED
      OBVIOUS
  <2> QED
    BY <1>2, <2>1 DEF At
<1> HIDE DEF m, b
<1>6. Finished(sent, Start, m, parseRequest(context, b))
  BY <1>1, <1>3, <1>4, <1>5, ParseFinishes
<1> QED
  BY <1>3, <1>4, <1>6 DEF b

\* A message keeps the invariant.
LEMMA ParseStep ==
    ASSUME ParseInv, [Next]_vars
    PROVE  ParseInv'
<1>1. CASE UNCHANGED vars
  <2>1. UNCHANGED <<sent, stream, buf, context, handled, gotOne>>
    BY <1>1 DEF vars
  <2> QED
    BY <2>1 DEF ParseInv, At, Start, NothingWaits
<1>2. CASE Next
  <2>1. PICK n \in 1..Len(stream) : OnMessage(n)
    BY <1>2 DEF Next
  <2>11. PICK a : a = Start
    OBVIOUS
  <2> DEFINE r == parseRequest(context, buf \o SubSeq(stream, 1, n))
             start == RequestStarts(sent)
             N == Len(handled)
  <2>2. sent \in Text /\ handled \in Seq(RequestType) /\ N \in Nat
    BY DEF ParseInv
  <2>3. /\ a \in Nat /\ 1 <= a
        /\ \E q \in Nat : /\ q <= Len(sent) /\ Finished(sent, a, q, r)
                          /\ SubSeq(stream, n + 1, Len(stream)) = SubSeq(sent, q + 1, Len(sent))
    BY <2>11, MessageFinishes
  <2>4. PICK q \in Nat : /\ q <= Len(sent) /\ Finished(sent, a, q, r)
                         /\ SubSeq(stream, n + 1, Len(stream)) = SubSeq(sent, q + 1, Len(sent))
    BY <2>3
  <2>5. /\ sent' = sent /\ stream' = SubSeq(sent, q + 1, Len(sent)) /\ buf' = r.buf
    BY <2>1, <2>4 DEF OnMessage
  <2>6. \/ isGotAll(r.context) /\ OnRequest(r.context)
        \/ /\ ~isGotAll(r.context) /\ context' = r.context /\ gotOne' = FALSE
           /\ handled' = handled
    BY <2>1 DEF OnMessage
  <2>7. start[N + 1] = After(sent, a)
    BY <2>2, <2>11, StartsAre DEF Start
  <2> HIDE DEF r
  <2>8. /\ isGotAll(r.context) => Got(sent, a, q, r)
        /\ ~isGotAll(r.context) => Waiting(sent, a, q, r) \/ Stuck(sent, a, q, r)
    BY <2>2, <2>3, <2>4, GotIffRequest
  <2>9. CASE isGotAll(r.context)
    <3>1. /\ handled' = Append(handled, r.context.request) /\ context' = NewContext
          /\ gotOne' = TRUE
      BY <2>6, <2>9 DEF OnRequest, Reset
    <3>2. /\ IsRequestAt(sent, a) /\ r.context.request = RequestAt(sent, a)
          /\ r.buf = SubSeq(sent, After(sent, a), q) /\ After(sent, a) <= q + 1
      BY <2>8, <2>9 DEF Got
    <3>3. r.context.request \in RequestType
      BY <2>4 DEF Finished, ParserType, ContextType
    <3>4. /\ handled' \in Seq(RequestType) /\ Len(handled') = N + 1
          /\ \A k \in 1..N : handled'[k] = handled[k]
          /\ handled'[N + 1] = r.context.request
      <4> DEFINE e == r.context.request
      <4> HIDE DEF e
      <4>1. e \in RequestType /\ handled' = Append(handled, e)
        BY <3>1, <3>3 DEF e
      <4>2. /\ handled' \in Seq(RequestType) /\ Len(handled') = N + 1
            /\ \A k \in 1..N : handled'[k] = handled[k]
            /\ handled'[N + 1] = e
        BY <2>2, <4>1
      <4> QED
        BY <4>2 DEF e
    <3>5. Start' = After(sent, a)
      BY <2>5, <2>7, <3>4 DEF Start
    <3>6. After(sent, a) \in Nat /\ 1 <= After(sent, a)
      BY <2>2, <2>3, AfterIs
    <3>12. PICK p : p = After(sent, a)
      OBVIOUS
    <3>7. ParserAt(sent, p, p, NewContext)
      BY NewRequestType DEF ParserAt, NewContext
    <3>8. At(p, q)'
      BY <2>4, <2>5, <3>1, <3>2, <3>5, <3>6, <3>7, <3>12 DEF At
    <3>9. ASSUME NEW k \in 1..N + 1
          PROVE  IsRequestAt(sent, start[k - 1]) /\ handled'[k] = RequestAt(sent, start[k - 1])
      <4>1. CASE k = N + 1
        <5>1. k - 1 = N
          BY <2>2, <4>1
        <5>2. start[k - 1] = a
          BY <2>11, <5>1 DEF Start
        <5> QED
          BY <3>2, <3>4, <4>1, <5>2
      <4>2. CASE k # N + 1
        <5>1. k \in 1..N
          BY <2>2, <4>2
        <5> QED
          BY <3>4, <5>1 DEF ParseInv
      <4> QED
        BY <4>1, <4>2
    <3>10. \A k \in 1..Len(handled') : /\ IsRequestAt(sent', RequestStarts(sent')[k - 1])
                                       /\ handled'[k] = RequestAt(sent', RequestStarts(sent')[k - 1])
      BY <2>5, <3>4, <3>9
    <3>11. \E p1 \in Nat : \E q1 \in Nat : At(p1, q1)'
      BY <3>6, <3>8, <3>12
    <3> QED
      BY <2>2, <2>5, <3>1, <3>4, <3>10, <3>11 DEF ParseInv, NothingWaits
  <2>10. CASE ~isGotAll(r.context)
    <3>1. context' = r.context /\ handled' = handled /\ Start' = a
      BY <2>5, <2>6, <2>10, <2>11 DEF Start
    <3>2. CASE Waiting(sent, a, q, r)
      <4>1. PICK p \in Nat : /\ 1 <= p /\ p <= q + 1 /\ r.buf = SubSeq(sent, p, q)
                             /\ ParserAt(sent, a, p, r.context) /\ CRLFs(r.buf) = {}
        BY <3>2 DEF Waiting
      <4>2. At(p, q)'
        BY <2>4, <2>5, <3>1, <4>1 DEF At
      <4>3. \E p1 \in Nat : \E q1 \in Nat : At(p1, q1)'
        BY <4>2
      <4>4. CRLFs(buf') = {}
        BY <2>5, <4>1
      <4> QED
        BY <2>2, <2>5, <3>1, <4>3, <4>4 DEF ParseInv, NothingWaits
    <3>3. CASE Stuck(sent, a, q, r)
      <4>1. At(a, q)'
        BY <2>3, <2>4, <2>5, <3>1, <3>3 DEF At, Stuck
      <4>2. \E p1 \in Nat : \E q1 \in Nat : At(p1, q1)'
        BY <2>3, <4>1
      <4>3. BadLineAt(sent', Start')
        BY <2>5, <3>1, <3>3 DEF Stuck
      <4> QED
        BY <2>2, <2>5, <3>1, <4>2, <4>3 DEF ParseInv, NothingWaits
    <3> QED
      BY <2>8, <2>10, <3>2, <3>3
  <2> QED
    BY <2>9, <2>10
<1> QED
  BY <1>1, <1>2

\* What the parser returns to onMessage.
LEMMA MessageOutcome ==
    ASSUME ParseInv, NEW n \in 1..Len(stream),
           NEW r, r = parseRequest(context, buf \o SubSeq(stream, 1, n))
    PROVE  /\ isGotAll(r.context) =>
                 IsRequestAt(sent, Start) /\ r.context.request \in RequestType
           /\ ~isGotAll(r.context) /\ r.does # "ok" => BadLineAt(sent, Start)
<1>1. sent \in Text
  BY DEF ParseInv
<1>2. /\ Start \in Nat /\ 1 <= Start
      /\ \E q \in Nat : /\ q <= Len(sent) /\ Finished(sent, Start, q, r)
                        /\ SubSeq(stream, n + 1, Len(stream)) = SubSeq(sent, q + 1, Len(sent))
  BY MessageFinishes
<1>3. PICK q \in Nat : q <= Len(sent) /\ Finished(sent, Start, q, r)
  BY <1>2
<1>4. /\ isGotAll(r.context) => Got(sent, Start, q, r)
      /\ ~isGotAll(r.context) /\ r.does # "ok" => Stuck(sent, Start, q, r)
  BY <1>1, <1>2, <1>3, GotIffRequest
<1>5. r.context.request \in RequestType
  BY <1>3 DEF Finished, ParserType, ContextType
<1> QED
  BY <1>4, <1>5 DEF Got, Stuck

\* The answer says that it is the last one, or announces the close.
IsFinal(reply) == reply.status = "400" \/ "Connection: close" \in reply.headers

\* A request that expects the connection to be closed after its answer.
ExpectsClose(request) ==
    request.version = "HTTP/1.0" /\ <<"Connection">> \notin DOMAIN request.headers

\* The invariant of the answers.
Answered ==
    /\ replies \in Seq(Reply)
    /\ \A i \in 1..Len(replies) : IsFinal(replies[i]) => i = Len(replies)
    /\ state_ = "kConnected" =>
          Len(replies) = Len(handled) /\ \A i \in 1..Len(replies) : ~IsFinal(replies[i])
    /\ state_ = "kDisconnecting" => \E i \in 1..Len(replies) : IsFinal(replies[i])
    /\ \A i \in 1..Len(replies) : replies[i].status = "400" =>
          i = Len(replies) /\ Len(handled) = Len(replies) - 1 /\ BadLineAt(sent, Start)
    /\ \A i \in 1..Len(replies) : replies[i].status # "400" =>
          i <= Len(handled) /\ (CloseWanted(handled[i]) => IsFinal(replies[i]))
    /\ \A i \in 1..Len(handled) :
          ExpectsClose(handled[i]) => state_ # "kConnected" /\ Len(replies) <= i

\* The inductive invariant of the server.
ServerInv ==
    /\ ParseInv
    /\ httpCallback_ \in {"default", "shorturl"} /\ sent \in Streams
    /\ state_ \in {"kConnected", "kDisconnecting", "terminated"} /\ gotOne \in BOOLEAN
    /\ Answered

\* The answer of either callback: it announces the close exactly if the connection is
\* closed after it, and it is closed when the request wants it.
LEMMA RespondIs ==
    ASSUME NEW request \in RequestType, NEW response, response = Respond(request),
           NEW reply, reply = appendToBuffer(response)
    PROVE  /\ reply \in Reply /\ reply.status # "400"
           /\ "Connection: close" \in reply.headers <=> response.closeConnection
           /\ CloseWanted(request) => response.closeConnection
<1> DEFINE close == CloseWanted(request)
<1>1. close \in BOOLEAN
  BY DEF CloseWanted
<1> HIDE DEF close
<1>2. \/ response = [statusCode |-> "404", closeConnection |-> TRUE, headers |-> {}]
      \/ response = [statusCode |-> "301", closeConnection |-> close, headers |-> {"Location"}]
      \/ response = [statusCode |-> "200", closeConnection |-> close,
                     headers |-> {"Content-Type"}]
  BY DEF Respond, HttpResponse, defaultHttpCallback, shortUrl, notFound, setCloseConnection,
         setStatusCode, addResponseHeader, close
<1>3. /\ response.statusCode \in {"404", "301", "200"}
      /\ response.headers \subseteq {"Location", "Content-Type"}
  BY <1>2
<1>8. close => response.closeConnection
  <2>1. CASE response = [statusCode |-> "404", closeConnection |-> TRUE, headers |-> {}]
    <3>1. response.closeConnection = TRUE
      BY <2>1
    <3> QED
      BY <3>1
  <2>2. CASE \/ response = [statusCode |-> "301", closeConnection |-> close,
                            headers |-> {"Location"}]
             \/ response = [statusCode |-> "200", closeConnection |-> close,
                            headers |-> {"Content-Type"}]
    <3>1. response.closeConnection = close
      BY <2>2
    <3> QED
      BY <3>1
  <2> QED
    BY <1>2, <2>1, <2>2
<1> DEFINE status == response.statusCode
           closed == response.closeConnection
           more == response.headers
           headers == {IF closed THEN "Connection: close" ELSE "Content-Length"} \cup more
<1>4. reply = [status |-> status, headers |-> headers]
  BY DEF appendToBuffer
<1>5. /\ headers \in SUBSET {"Connection: close", "Content-Length", "Location", "Content-Type"}
      /\ "Connection: close" \in headers <=> closed
  <2>1. more \subseteq {"Location", "Content-Type"}
    BY <1>3
  <2> HIDE DEF closed, more
  <2>2. "Connection: close" \notin more
    BY <2>1
  <2> QED
    BY <2>1, <2>2
<1> HIDE DEF headers
<1>6. reply.status = status /\ reply.headers = headers
  BY <1>4
<1>7. reply \in Reply
  <2> HIDE DEF status
  <2>1. status \in {"200", "301", "404", "400"}
    BY <1>3 DEF status
  <2>2. headers \in SUBSET {"Connection: close", "Content-Length", "Location", "Content-Type"}
    BY <1>5
  <2> DEFINE Status == {"200", "301", "404", "400"}
             Headers == SUBSET {"Connection: close", "Content-Length", "Location", "Content-Type"}
  <2>3. status \in Status /\ headers \in Headers
    BY <2>1, <2>2
  <2>4. Reply = [status : Status, headers : Headers]
    BY DEF Reply
  <2> HIDE DEF Status, Headers
  <2>5. [status |-> status, headers |-> headers] \in [status : Status, headers : Headers]
    BY <2>3
  <2> QED
    BY <1>4, <2>4, <2>5
<1> QED
  BY <1>3, <1>5, <1>6, <1>7, <1>8 DEF close

\* An HTTP/1.0 request without a Connection header wants the connection to be closed.
LEMMA ExpectsCloseIs ==
    ASSUME NEW request, ExpectsClose(request)
    PROVE  CloseWanted(request)
<1>1. getHeader(request, "Connection") = <<>>
  BY DEF ExpectsClose, getHeader
<1>2. <<>> # <<"Keep-Alive">>
  OBVIOUS
<1> QED
  BY <1>1, <1>2 DEF CloseWanted, ExpectsClose

\* An answer to a request keeps the invariant of the answers.
LEMMA AnswerRequest ==
    ASSUME ServerInv, state_ # "terminated", NEW request \in RequestType,
           IsRequestAt(sent, Start), sent' = sent,
           handled' = Append(handled, request),
           Send(appendToBuffer(Respond(request))), shutdown(Respond(request).closeConnection)
    PROVE  Answered' /\ state_' \in {"kConnected", "kDisconnecting"}
<1> DEFINE response == Respond(request)
           reply == appendToBuffer(response)
           N == Len(handled)
           M == Len(replies)
<1>1. /\ reply \in Reply /\ reply.status # "400"
      /\ "Connection: close" \in reply.headers <=> response.closeConnection
      /\ CloseWanted(request) => response.closeConnection
  BY RespondIs
<1>2. /\ replies' = IF state_ = "kConnected" THEN Append(replies, reply) ELSE replies
      /\ state_' = IF response.closeConnection THEN "kDisconnecting" ELSE state_
  BY DEF Send, shutdown
<1> HIDE DEF response, reply
<1>3. IsFinal(reply) <=> response.closeConnection
  BY <1>1 DEF IsFinal
<1>4. handled \in Seq(RequestType) /\ N \in Nat
  BY DEF ServerInv, ParseInv
<1>5. /\ Len(handled') = N + 1 /\ handled'[N + 1] = request
      /\ \A k \in 1..N : handled'[k] = handled[k]
  BY <1>4
<1>6. replies \in Seq(Reply) /\ M \in Nat
  BY DEF ServerInv, Answered
<1>7. \A i \in 1..M : replies[i].status # "400"
  BY DEF ServerInv, Answered, BadLineAt, IsRequestAt
<1>8. \A i \in 1..M : i <= N /\ (CloseWanted(handled[i]) => IsFinal(replies[i]))
  BY <1>7 DEF ServerInv, Answered
<1>9. M <= N
  <2>1. CASE M = 0
    BY <1>4, <2>1
  <2>2. CASE M # 0
    <3>1. M \in 1..M
      BY <1>6, <2>2
    <3> QED
      BY <1>8, <3>1
  <2> QED
    BY <2>1, <2>2
<1>10. reply \in Reply
  BY <1>1
<1>13. reply.status # "400"
  BY <1>1
<1>14. CloseWanted(request) => IsFinal(reply)
  BY <1>1, <1>3
<1>11. CASE state_ = "kConnected"
  <2>1. /\ replies' = Append(replies, reply) /\ M = N
        /\ \A i \in 1..M : ~IsFinal(replies[i])
        /\ \A i \in 1..N : ~ExpectsClose(handled[i])
    BY <1>2, <1>11 DEF ServerInv, Answered
  <2>2. /\ replies' \in Seq(Reply) /\ Len(replies') = M + 1 /\ replies'[M + 1] = reply
        /\ \A i \in 1..M : replies'[i] = replies[i]
    BY <1>6, <1>10, <2>1
  <2>3. state_' = IF response.closeConnection THEN "kDisconnecting" ELSE "kConnected"
    BY <1>2, <1>11
  <2>4. \A i \in 1..M + 1 : IsFinal(replies'[i]) => i = M + 1 /\ response.closeConnection
    BY <1>3, <1>6, <2>1, <2>2
  <2>5. state_' = "kConnected" => M + 1 = N + 1 /\ \A i \in 1..M + 1 : ~IsFinal(replies'[i])
    BY <2>1, <2>3, <2>4
  <2>6. state_' = "kDisconnecting" => \E i \in 1..M + 1 : IsFinal(replies'[i])
    <3>1. M + 1 \in 1..M + 1
      BY <1>6
    <3> QED
      BY <1>3, <2>2, <2>3, <3>1
  <2>7. \A i \in 1..M + 1 : replies'[i].status # "400"
    <3> SUFFICES ASSUME NEW i \in 1..M + 1 PROVE replies'[i].status # "400"
      OBVIOUS
    <3>1. i = M + 1 \/ i \in 1..M
      BY <1>6
    <3> QED
      BY <1>7, <1>13, <2>2, <3>1
  <2>8. ASSUME NEW i \in 1..M + 1
        PROVE  i <= N + 1 /\ (CloseWanted(handled'[i]) => IsFinal(replies'[i]))
    <3>1. CASE i = M + 1
      <4>1. i = N + 1 /\ i <= N + 1 /\ handled'[i] = request /\ replies'[i] = reply
        BY <1>4, <1>5, <2>1, <2>2, <3>1
      <4> QED
        BY <1>14, <4>1
    <3>2. CASE i # M + 1
      <4>1. i \in 1..M /\ i \in 1..N /\ i <= N + 1
        BY <1>6, <2>1, <3>2
      <4> QED
        BY <1>5, <1>8, <2>2, <4>1
    <3> QED
      BY <3>1, <3>2
  <2>9. ASSUME NEW i \in 1..N + 1, ExpectsClose(handled'[i])
        PROVE  state_' # "kConnected" /\ M + 1 <= i
    <3>1. i = N + 1
      <4>1. i # N + 1 => i \in 1..N
        BY <1>4
      <4> QED
        BY <1>5, <2>1, <2>9, <4>1
    <3>2. CloseWanted(request)
      BY <1>5, <2>9, <3>1, ExpectsCloseIs
    <3>3. response.closeConnection
      BY <1>1, <3>2
    <3> QED
      BY <1>6, <2>1, <2>3, <3>1, <3>3
  <2>10. Answered'
    BY <1>5, <2>2, <2>4, <2>5, <2>6, <2>7, <2>8, <2>9 DEF Answered
  <2> QED
    BY <2>3, <2>10
<1>12. CASE state_ # "kConnected"
  <2>1. state_ = "kDisconnecting"
    BY <1>12 DEF ServerInv
  <2>2. replies' = replies /\ state_' = "kDisconnecting"
    BY <1>2, <2>1
  <2>3. /\ \A i \in 1..M : IsFinal(replies[i]) => i = M
        /\ \E i \in 1..M : IsFinal(replies[i])
        /\ \A i \in 1..N : ExpectsClose(handled[i]) => M <= i
    BY <2>1 DEF ServerInv, Answered
  <2>4. \A i \in 1..M : i <= N + 1 /\ (CloseWanted(handled'[i]) => IsFinal(replies[i]))
    <3> SUFFICES ASSUME NEW i \in 1..M
                 PROVE  i <= N + 1 /\ (CloseWanted(handled'[i]) => IsFinal(replies[i]))
      OBVIOUS
    <3>1. i \in 1..N /\ i <= N + 1
      BY <1>4, <1>6, <1>9
    <3> QED
      BY <1>5, <1>8, <3>1
  <2>5. \A i \in 1..N + 1 : ExpectsClose(handled'[i]) => M <= i
    <3> SUFFICES ASSUME NEW i \in 1..N + 1, ExpectsClose(handled'[i]) PROVE M <= i
      OBVIOUS
    <3>1. CASE i = N + 1
      BY <1>4, <1>6, <1>9, <3>1
    <3>2. CASE i # N + 1
      <4>1. i \in 1..N
        BY <1>4, <3>2
      <4> QED
        BY <1>5, <2>3, <4>1
    <3> QED
      BY <3>1, <3>2
  <2>6. Answered'
    BY <1>5, <1>6, <1>7, <2>2, <2>3, <2>4, <2>5 DEF Answered
  <2> QED
    BY <2>2, <2>6
<1> QED
  BY <1>11, <1>12

\* The reply to a bad request line keeps the invariant of the answers.
LEMMA AnswerBadLine ==
    ASSUME ServerInv, state_ # "terminated", BadLineAt(sent, Start), sent' = sent,
           handled' = handled, Send(BadRequest), shutdown(TRUE)
    PROVE  Answered' /\ state_' = "kDisconnecting"
<1> DEFINE N == Len(handled)
           M == Len(replies)
<1>1. /\ replies' = IF state_ = "kConnected" THEN Append(replies, BadRequest) ELSE replies
      /\ state_' = "kDisconnecting"
  BY DEF Send, shutdown
<1>2. Start' = Start
  BY DEF Start
<1>3. handled \in Seq(RequestType) /\ N \in Nat
  BY DEF ServerInv, ParseInv
<1>4. replies \in Seq(Reply) /\ M \in Nat
  BY DEF ServerInv, Answered
<1>5. CASE state_ = "kConnected"
  <2>1. /\ replies' = Append(replies, BadRequest) /\ M = N
        /\ \A i \in 1..M : ~IsFinal(replies[i])
        /\ \A i \in 1..N : ~ExpectsClose(handled[i])
        /\ \A i \in 1..M : replies[i].status # "400" =>
              (CloseWanted(handled[i]) => IsFinal(replies[i]))
    BY <1>1, <1>5 DEF ServerInv, Answered
  <2>2. BadRequest \in Reply /\ BadRequest.status = "400" /\ IsFinal(BadRequest)
    BY DEF BadRequest, Reply, IsFinal
  <2>3. /\ replies' \in Seq(Reply) /\ Len(replies') = M + 1 /\ replies'[M + 1] = BadRequest
        /\ \A i \in 1..M : replies'[i] = replies[i]
    BY <1>4, <2>1, <2>2
  <2>4. \A i \in 1..M + 1 : i # M + 1 => /\ i \in 1..M /\ replies'[i] = replies[i]
                                         /\ ~IsFinal(replies'[i])
                                         /\ replies'[i].status # "400"
    <3> SUFFICES ASSUME NEW i \in 1..M + 1, i # M + 1
                 PROVE  /\ i \in 1..M /\ replies'[i] = replies[i] /\ ~IsFinal(replies'[i])
                        /\ replies'[i].status # "400"
      OBVIOUS
    <3>1. i \in 1..M
      BY <1>4
    <3> QED
      BY <2>1, <2>3, <3>1 DEF IsFinal
  <2>5. M + 1 \in 1..M + 1 /\ IsFinal(replies'[M + 1])
    BY <1>4, <2>2, <2>3
  <2>6. \A i \in 1..M + 1 : IsFinal(replies'[i]) => i = M + 1
    BY <2>4
  <2>7. \E i \in 1..M + 1 : IsFinal(replies'[i])
    BY <2>5
  <2>8. \A i \in 1..M + 1 : replies'[i].status = "400" =>
           i = M + 1 /\ N = (M + 1) - 1 /\ BadLineAt(sent, Start)
    BY <1>4, <2>1, <2>4
  <2>9. \A i \in 1..M + 1 : replies'[i].status # "400" =>
           i <= N /\ (CloseWanted(handled[i]) => IsFinal(replies'[i]))
    <3> SUFFICES ASSUME NEW i \in 1..M + 1, replies'[i].status # "400"
                 PROVE  i <= N /\ (CloseWanted(handled[i]) => IsFinal(replies'[i]))
      OBVIOUS
    <3>1. i # M + 1
      BY <2>2, <2>3
    <3>2. i \in 1..M /\ replies'[i] = replies[i]
      BY <2>4, <3>1
    <3>3. i <= N
      BY <1>3, <2>1, <3>2
    <3> QED
      BY <2>1, <3>2, <3>3
  <2>10. Answered'
    BY <1>1, <1>2, <2>1, <2>3, <2>6, <2>7, <2>8, <2>9 DEF Answered
  <2> QED
    BY <1>1, <2>10
<1>6. CASE state_ # "kConnected"
  <2>1. state_ = "kDisconnecting"
    BY <1>6 DEF ServerInv
  <2>2. replies' = replies /\ state_' = state_
    BY <1>1, <2>1
  <2> QED
    BY <1>1, <1>2, <2>2 DEF ServerInv, Answered
<1> QED
  BY <1>5, <1>6

\* Init satisfies the invariant of the server.
LEMMA ServerInit == Init => ServerInv
<1> SUFFICES ASSUME Init PROVE ServerInv
  OBVIOUS
<1>1. ParseInv
  BY ParseInit
<1>2. replies = <<>> /\ handled = <<>> /\ state_ = "kConnected"
  BY DEF Init
<1>3. replies \in Seq(Reply) /\ Len(replies) = 0 /\ Len(handled) = 0
  BY <1>2
<1>4. Answered
  BY <1>2, <1>3 DEF Answered
<1> QED
  BY <1>1, <1>4 DEF ServerInv, Init

\* A message keeps the invariant of the server.
LEMMA ServerStep ==
    ASSUME ServerInv, [Next]_vars
    PROVE  ServerInv'
<1>1. ParseInv'
  BY ParseStep DEF ServerInv
<1>2. CASE UNCHANGED vars
  <2>1. UNCHANGED <<httpCallback_, sent, handled, replies, state_, gotOne>>
    BY <1>2 DEF vars
  <2> QED
    BY <1>1, <2>1 DEF ServerInv, Answered, Start
<1>3. CASE Next
  <2>1. PICK n \in 1..Len(stream) : OnMessage(n)
    BY <1>3 DEF Next
  <2> DEFINE r == parseRequest(context, buf \o SubSeq(stream, 1, n))
  <2>2. /\ isGotAll(r.context) => IsRequestAt(sent, Start) /\ r.context.request \in RequestType
        /\ ~isGotAll(r.context) /\ r.does # "ok" => BadLineAt(sent, Start)
    BY MessageOutcome DEF ServerInv
  <2>3. /\ state_ # "terminated" /\ httpCallback_' = httpCallback_ /\ sent' = sent
        /\ \/ isGotAll(r.context) /\ OnRequest(r.context)
           \/ /\ ~isGotAll(r.context) /\ gotOne' = FALSE /\ handled' = handled
              /\ \/ r.does = "ok" /\ UNCHANGED <<state_, replies>>
                 \/ r.does = "fail" /\ Send(BadRequest) /\ shutdown(TRUE)
                 \/ r.does = "throw" /\ state_' = "terminated" /\ UNCHANGED replies
    BY <2>1 DEF OnMessage
  <2> HIDE DEF r
  <2>4. CASE isGotAll(r.context) /\ OnRequest(r.context)
    <3> DEFINE request == r.context.request
    <3>1. /\ handled' = Append(handled, request)
          /\ Send(appendToBuffer(Respond(request)))
          /\ shutdown(Respond(request).closeConnection) /\ gotOne' = TRUE
      BY <2>4 DEF OnRequest
    <3>2. request \in RequestType /\ IsRequestAt(sent, Start)
      BY <2>2, <2>4
    <3> HIDE DEF request
    <3>3. Answered' /\ state_' \in {"kConnected", "kDisconnecting"}
      BY <2>3, <3>1, <3>2, AnswerRequest
    <3> QED
      BY <1>1, <2>3, <3>1, <3>3 DEF ServerInv
  <2>5. CASE ~isGotAll(r.context) /\ gotOne' = FALSE /\ handled' = handled
    <3>1. CASE r.does = "ok" /\ UNCHANGED <<state_, replies>>
      BY <1>1, <2>3, <2>5, <3>1 DEF ServerInv, Answered, Start
    <3>2. CASE r.does = "fail" /\ Send(BadRequest) /\ shutdown(TRUE)
      <4>1. BadLineAt(sent, Start)
        BY <2>2, <2>5, <3>2
      <4>2. Answered' /\ state_' = "kDisconnecting"
        BY <2>3, <2>5, <3>2, <4>1, AnswerBadLine
      <4> QED
        BY <1>1, <2>3, <2>5, <4>2 DEF ServerInv
    <3>3. CASE r.does = "throw" /\ state_' = "terminated" /\ UNCHANGED replies
      <4>1. Answered'
        BY <2>3, <2>5, <3>3 DEF ServerInv, Answered, Start
      <4> QED
        BY <1>1, <2>3, <2>5, <3>3, <4>1 DEF ServerInv
    <3> QED
      BY <2>3, <2>5, <3>1, <3>2, <3>3
  <2> QED
    BY <2>3, <2>4, <2>5
<1> QED
  BY <1>2, <1>3

\* The inductive invariant holds.
THEOREM ServerInvariant == Spec => []ServerInv
<1>1. Init => ServerInv
  BY ServerInit
<1>2. ServerInv /\ [Next]_vars => ServerInv'
  BY ServerStep
<1> QED
  BY <1>1, <1>2, PTL DEF Spec

-----------------------------------------------------------------------------
(* What the server does                                                    *)

\* parseRequest: however the stream is cut, the requests that the server handles are the
\* first ones of the stream as it is read without cuts, each as it stands there; and from
\* where the parser is it finds the next one in the rest, if there is one, and stops
\* behind it.
THEOREM CutsDoNotMatterHolds == Spec => []CutsDoNotMatter
<1>1. ServerInv => CutsDoNotMatter
  <2> SUFFICES ASSUME ServerInv PROVE CutsDoNotMatter
    OBVIOUS
  <2> DEFINE start == RequestStarts(sent)
             n == Len(handled)
             L == Len(sent)
             r == parseRequest(context, buf \o stream)
  <2>1. sent \in Text /\ L \in Nat /\ n \in Nat
    BY DEF ServerInv, ParseInv, Text
  <2>2. PICK p \in Nat, q \in Nat : At(p, q)
    BY DEF ServerInv, ParseInv
  <2>3. \A k \in Nat : start[k] \in Nat \ {0}
    BY <2>1, StartsAre
  <2>4. Start = start[n] /\ Start \in Nat /\ 1 <= Start
    BY <2>1, <2>3 DEF Start
  <2>5. /\ 1 <= p /\ p <= q + 1 /\ q <= L /\ p <= L + 1
        /\ stream = SubSeq(sent, q + 1, L) /\ buf = SubSeq(sent, p, q)
        /\ ParserAt(sent, Start, p, context)
    BY <2>1, <2>2 DEF At
  <2>15. L <= Len(sent)
    BY <2>1
  <2>6. buf \o stream = SubSeq(sent, p, L)
    <3> HIDE DEF L
    <3>1. SubSeq(sent, p, q) \o SubSeq(sent, q + 1, L) = SubSeq(sent, p, L)
      BY <2>1, <2>5, <2>15, PartsJoin
    <3> QED
      BY <2>5, <3>1
  <2>7. Finished(sent, Start, L, r)
    <3> DEFINE b == buf \o stream
    <3>1. b = SubSeq(sent, p, L)
      BY <2>6
    <3> HIDE DEF b, L
    <3>2. Finished(sent, Start, L, parseRequest(context, b))
      BY <2>1, <2>4, <2>5, <2>15, <3>1, ParseFinishes
    <3> QED
      BY <3>2 DEF b
  <2> HIDE DEF r, L
  <2>8. /\ isGotAll(r.context) <=> IsRequestAt(sent, Start) /\ After(sent, Start) <= L + 1
        /\ isGotAll(r.context) => Got(sent, Start, L, r)
    BY <2>1, <2>4, <2>7, GotIffRequest DEF L
  <2>9. IsRequestAt(sent, Start) => After(sent, Start) <= L + 1
    BY <2>1, <2>4, AfterIs DEF L
  <2>10. start[n + 1] = After(sent, Start)
    BY <2>1, <2>4, StartsAre
  <2>11. TypeOK
    <3>1. \E i \in 1..Len(sent) + 1 : stream = SubSeq(sent, i, Len(sent))
      <4>1. q + 1 \in 1..Len(sent) + 1
        BY <2>1, <2>5 DEF L
      <4> QED
        BY <2>5, <4>1 DEF L
    <3>2. context.parseState \in {"kExpectRequestLine", "kExpectHeaders"}
      BY <2>5, NotGotAll
    <3>3. /\ context.request.method \in Method \cup {"kInvalid"}
          /\ context.request.version \in Version \cup {"kUnknown"}
      BY <2>5 DEF ParserAt, ContextType, RequestType
    <3> QED
      BY <3>1, <3>2, <3>3 DEF TypeOK, ServerInv
  <2>12. \A k \in 1..n : /\ IsRequestAt(sent, start[k - 1])
                         /\ handled[k] = RequestAt(sent, start[k - 1])
    BY DEF ServerInv, ParseInv
  <2>13. isGotAll(r.context) <=> IsRequestAt(sent, start[n])
    BY <2>4, <2>8, <2>9
  <2>14. isGotAll(r.context) => /\ r.context.request = RequestAt(sent, start[n])
                                /\ r.buf = SubSeq(sent, start[n + 1], Len(sent))
    BY <2>4, <2>8, <2>10 DEF Got, L
  <2> QED
    BY <2>11, <2>12, <2>13, <2>14 DEF CutsDoNotMatter, r
<1> QED
  BY <1>1, ServerInvariant, PTL

\* onMessage: a message that handled no request leaves no complete one in the buffer.
THEOREM NoRequestWaitsHolds == Spec => []NoRequestWaits
<1>1. ServerInv => NoRequestWaits
  <2> SUFFICES ASSUME ServerInv, ~gotOne PROVE ~isGotAll(parseRequest(context, buf).context)
    BY DEF NoRequestWaits
  <2> DEFINE r == parseRequest(context, buf)
  <2>1. sent \in Text /\ Len(handled) \in Nat
    BY DEF ServerInv, ParseInv
  <2>2. PICK p \in Nat, q \in Nat : At(p, q)
    BY DEF ServerInv, ParseInv
  <2>3. \A k \in Nat : RequestStarts(sent)[k] \in Nat \ {0}
    BY <2>1, StartsAre
  <2>4. Start \in Nat /\ 1 <= Start
    BY <2>1, <2>3 DEF Start
  <2>5. /\ 1 <= p /\ p <= q + 1 /\ q <= Len(sent) /\ buf = SubSeq(sent, p, q)
        /\ ParserAt(sent, Start, p, context)
    BY <2>2 DEF At
  <2>6. Finished(sent, Start, q, r)
    BY <2>1, <2>4, <2>5, ParseFinishes
  <2> HIDE DEF r
  <2>7. isGotAll(r.context) <=> IsRequestAt(sent, Start) /\ After(sent, Start) <= q + 1
    BY <2>1, <2>4, <2>5, <2>6, GotIffRequest
  <2>8. CRLFs(buf) = {} \/ BadLineAt(sent, Start)
    BY DEF ServerInv, ParseInv, NothingWaits
  <2>9. CASE BadLineAt(sent, Start)
    BY <2>7, <2>9 DEF BadLineAt, IsRequestAt, r
  <2>10. CASE CRLFs(buf) = {}
    <3>1. IsRequestAt(sent, Start) => After(sent, Start) > q + 1
      BY <2>1, <2>4, <2>5, <2>10, WaitingForRest
    <3>2. After(sent, Start) \in Nat
      BY <2>1, <2>4, AfterIs
    <3> QED
      BY <2>7, <3>1, <3>2 DEF r
  <2> QED
    BY <2>8, <2>9, <2>10
<1> QED
  BY <1>1, ServerInvariant, PTL

\* onRequest and the error reply: the requests are answered in order, up to an answer that
\* is the last, and a bad line is answered once.
THEOREM AnsweredInOrderHolds == Spec => []AnsweredInOrder
<1>1. ServerInv => AnsweredInOrder
  <2> SUFFICES ASSUME ServerInv PROVE AnsweredInOrder
    OBVIOUS
  <2> DEFINE last == Len(replies)
             final == {i \in DOMAIN replies : \/ replies[i].status = "400"
                                              \/ "Connection: close" \in replies[i].headers}
  <2>1. /\ replies \in Seq(Reply) /\ handled \in Seq(RequestType)
        /\ DOMAIN replies = 1..last /\ DOMAIN handled = 1..Len(handled) /\ last \in Nat
    BY DEF ServerInv, ParseInv, Answered
  <2>2. final = {i \in 1..last : IsFinal(replies[i])}
    BY <2>1 DEF IsFinal
  <2> HIDE DEF final
  <2>3. final \subseteq {last}
    BY <2>2 DEF ServerInv, Answered
  <2>4. state_ = "kConnected" => final = {} /\ Len(replies) = Len(handled)
    BY <2>2 DEF ServerInv, Answered
  <2>5. state_ = "kDisconnecting" => final # {}
    BY <2>2, ZenonT(30) DEF ServerInv, Answered
  <2>6. ASSUME NEW i \in DOMAIN replies, replies[i].status = "400"
        PROVE  /\ i = last /\ Len(handled) = last - 1
               /\ BadLineAt(sent, RequestStarts(sent)[last - 1])
    BY <2>1, <2>6, ZenonT(30) DEF ServerInv, Answered, Start
  <2>7. ASSUME NEW i \in DOMAIN replies, replies[i].status # "400"
        PROVE  i <= Len(handled) /\ (CloseWanted(handled[i]) => i \in final)
    BY <2>1, <2>2, <2>7, ZenonT(30) DEF ServerInv, Answered
  <2>8. ASSUME NEW i \in DOMAIN handled, handled[i].version = "HTTP/1.0",
               <<"Connection">> \notin DOMAIN handled[i].headers
        PROVE  state_ # "kConnected" /\ last <= i
    <3>1. ExpectsClose(handled[i])
      BY <2>8 DEF ExpectsClose
    <3> QED
      BY <2>1, <3>1 DEF ServerInv, Answered
  <2> QED
    BY <2>3, <2>4, <2>5, <2>6, <2>7, <2>8 DEF AnsweredInOrder, final
<1> QED
  BY <1>1, ServerInvariant, PTL
=============================================================================
