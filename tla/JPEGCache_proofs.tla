-------------------------- MODULE JPEGCache_proofs --------------------------
(***************************************************************************)
(* Proofs about JPEGCache, for buffers, strips and images of every size.   *)
(*                                                                         *)
(* Inv follows a byte from the compressor to the scanline it is decoded    *)
(* to.  On the writer's side, Made says how many bytes there are to be at  *)
(* each call and Received that those the receiver has, with those in the   *)
(* buffer, are the first ones in order.  ReadAfterWrite joins the sides:   *)
(* a reader starts only on the file of a writer that ended well, which is  *)
(* whole (WholeFile) unless the last put failed.  On the reader's side     *)
(* Fetched says that the buffer holds the bytes at the decoder's position, *)
(* Taken which position each call is at, and Decoded that each scanline    *)
(* has its own bytes.                                                      *)
(***************************************************************************)
EXTENDS JPEGCache, SequenceTheorems, TLAPS

-----------------------------------------------------------------------------
(* The inductive invariant.                                                *)

WriterTypes == WTypeOK /\ rowBytes \in Nat \ {0} /\ file \in Seq(Nat)

(* The native writer is there from beginWrite() to the first dispose().    *)
WriterAlive ==
  /\ wptr <=> wpc \in {"image", "strip", "disposing"}
  /\ wdeleted = IF wpc \in {"put", "closed"} THEN 1 ELSE 0

(* Where the failures of a put, and what they cause, can be met.           *)
PutFailures ==
  /\ wthrown => wpc \in {"disposing", "put", "closed"}
  /\ wthrown /\ wpc = "disposing" => written < Height
  /\ putFailed = "strip" => wthrown
  /\ putFailed = "finish" => wpc \in {"put", "closed"}

(* What the compressor has made, and is to make in this call.              *)
Made ==
  /\ emitted + todo <= Encoded
  /\ todo > 0 => wpc \in {"strip", "finish"}
  /\ wpc = "new" => emitted = 0 /\ written = 0
  /\ wpc = "image" => emitted = EndOf(written)
  /\ wpc = "strip" => /\ written < Height
                      /\ emitted + todo = EndOf(Min({written + WriteStrip, Height}))
  /\ wpc = "disposing" /\ written = Height => emitted = EndOf(Height)
  /\ wpc = "finish" => emitted + todo = Encoded
  /\ wpc \in {"put", "closed"} => wthrown \/ putFailed # "no" \/ emitted = Encoded

(* What the receiver has and what the buffer holds, a byte at a time.      *)
Received ==
  putFailed = "no" =>
    /\ \A i \in 1..Len(file) : file[i] = i
    /\ wpc = "new" => file = << >>
    /\ wpc \in {"image", "strip", "disposing", "finish"} =>
         /\ Len(file) + (WriteBuf - free) = emitted
         /\ \A i \in 1..(WriteBuf - free) : wbuf[i] = Len(file) + i
    /\ wpc \in {"put", "closed"} =>
         Len(file) <= emitted /\ (wthrown \/ Len(file) = emitted)

WInv == WriterTypes /\ WriterAlive /\ PutFailures /\ Made /\ Received

(* The entry is read only after it was written without an exception.       *)
ReadAfterWrite == entry = "present" \/ rpc # "new" => wpc = "closed" /\ ~wthrown

ReaderTypes ==
  /\ RTypeOK
  /\ rbuf \in Seq(Nat) /\ picture \in Seq(Seq(Nat))
  /\ rpc = "strip" => picture # << >> /\ Len(picture) <= stripEnd

(* The native reader is there from beginRead() to the first dispose().     *)
ReaderAlive ==
  /\ rptr <=> rpc \in {"image", "strip", "disposing"}
  /\ rdeleted = IF rpc \in {"got", "closed"} THEN 1 ELSE 0

Reading == {"new", "header", "skip", "tables", "image", "strip"}

(* How many bytes of the file the decoder has taken.                       *)
Position == fetched - Len(rbuf)

(* The buffer holds the bytes that come next, and none that is made up.    *)
Fetched ==
  putFailed # "finish" /\ rpc \in Reading =>
    /\ Len(rbuf) <= fetched
    /\ \A i \in 1..Len(rbuf) : rbuf[i] = Position + i

(* Which byte each call is at.                                             *)
Taken ==
  putFailed # "finish" =>
    /\ rpc \in Reading \cup {"disposing"} => ~eoi
    /\ rpc \in {"new", "header"} => Position = 0
    /\ rpc \in {"new", "header", "skip", "tables"} => picture = << >>
    /\ rpc = "skip" => Position + skipLeft = HeaderBytes - 1
    /\ rpc = "tables" => Position = HeaderBytes - 1
    /\ rpc = "image" => Position = EndOf(Len(picture))
    /\ rpc = "strip" => Position = EndOf(Len(picture) - 1) + Len(Last(picture))

LastIsWhole == picture # << >> => Len(Last(picture)) = rowBytes

(* Every scanline but the last is whole, and that one is so far.           *)
Decoded ==
  putFailed # "finish" =>
    /\ \A n \in 1..Len(picture) :
         /\ Len(picture[n]) <= rowBytes
         /\ n < Len(picture) => Len(picture[n]) = rowBytes
         /\ \A i \in 1..Len(picture[n]) : picture[n][i] = EndOf(n - 1) + i
    /\ rpc = "image" => LastIsWhole
    /\ rpc = "finish" \/ (rpc \in {"got", "closed"} /\ ~rthrown) =>
         Len(picture) = Height /\ LastIsWhole

RInv == ReaderTypes /\ ReaderAlive /\ Fetched /\ Taken /\ Decoded

Inv == entry \in {"none", "open", "present"} /\ WInv /\ RInv /\ ReadAfterWrite
-----------------------------------------------------------------------------
(* Sizes and places.                                                       *)
LEMMA Sizes ==
  /\ HeaderBytes \in Nat /\ HeaderBytes > 1 /\ HeaderBytes < WriteBuf
  /\ Height \in Nat /\ Height > 0 /\ MaxRowBytes \in Nat
  /\ WriteBuf \in Nat /\ WriteStrip \in Nat /\ WriteStrip > 0
  /\ ReadBuf \in Nat /\ ReadBuf > 0 /\ ReadStrip \in Nat /\ ReadStrip > 0
BY FileAssumption, WriterAssumption, ReaderAssumption

(* The minimum of two numbers, which the strips are cut with.              *)
LEMMA MinOfTwo ==
  ASSUME NEW a \in Int, NEW b \in Int
  PROVE  Min({a, b}) = IF a <= b THEN a ELSE b
<1>1. CASE a <= b
  <2>1. \A x \in {a, b} : (\A y \in {a, b} : x =< y) => x = a
    BY <1>1
  <2>2. \A y \in {a, b} : a =< y
    BY <1>1
  <2> QED BY <1>1, <2>1, <2>2 DEF Min
<1>2. CASE ~(a <= b)
  <2>1. \A x \in {a, b} : (\A y \in {a, b} : x =< y) => x = b
    BY <1>2
  <2>2. \A y \in {a, b} : b =< y
    BY <1>2
  <2> QED BY <1>2, <2>1, <2>2 DEF Min
<1> QED BY <1>1, <1>2

(* The maximum of two numbers, which the read buffer is bounded with.      *)
LEMMA MaxOfTwo ==
  ASSUME NEW a \in Int, NEW b \in Int
  PROVE  Max({a, b}) = IF a >= b THEN a ELSE b
<1>1. CASE a >= b
  <2>1. \A x \in {a, b} : (\A y \in {a, b} : x >= y) => x = a
    BY <1>1
  <2>2. \A y \in {a, b} : a >= y
    BY <1>1
  <2> QED BY <1>1, <2>1, <2>2 DEF Max
<1>2. CASE ~(a >= b)
  <2>1. \A x \in {a, b} : (\A y \in {a, b} : x >= y) => x = b
    BY <1>2
  <2>2. \A y \in {a, b} : b >= y
    BY <1>2
  <2> QED BY <1>2, <2>1, <2>2 DEF Max
<1> QED BY <1>1, <1>2

(* Where scanlines end: one after the other, within what is encoded.       *)
LEMMA EndFacts ==
  ASSUME rowBytes \in Nat \ {0}
  PROVE  /\ EndOf(0) = HeaderBytes
         /\ \A n \in Nat : EndOf(n) \in Nat /\ EndOf(n) >= HeaderBytes
         /\ \A n \in Nat : EndOf(n + 1) = EndOf(n) + rowBytes
         /\ \A m \in Nat, k \in Nat : EndOf(m + k) = EndOf(m) + rowBytes * k
         /\ \A m \in Nat, n \in Nat : m <= n => EndOf(m) <= EndOf(n)
         /\ Encoded = EndOf(Height) + 1 /\ Encoded \in Nat
<1>1. /\ rowBytes \in Nat /\ rowBytes > 0 /\ HeaderBytes \in Nat /\ Height \in Nat
  BY Sizes
<1>2. ASSUME NEW m \in Nat, NEW k \in Nat
      PROVE  EndOf(m + k) = EndOf(m) + rowBytes * k
  <2>1. (m + k) * rowBytes = m * rowBytes + rowBytes * k
    BY <1>1
  <2>2. m * rowBytes \in Nat /\ rowBytes * k \in Nat
    BY <1>1
  <2> QED BY <1>1, <2>1, <2>2 DEF EndOf
<1>3. ASSUME NEW n \in Nat
      PROVE  EndOf(n) \in Nat /\ EndOf(n) >= HeaderBytes
  <2>1. n * rowBytes \in Nat
    BY <1>1
  <2> QED BY <1>1, <2>1 DEF EndOf
<1>4. ASSUME NEW n \in Nat
      PROVE  EndOf(n + 1) = EndOf(n) + rowBytes
  <2>1. (n + 1) * rowBytes = n * rowBytes + rowBytes /\ n * rowBytes \in Nat
    BY <1>1
  <2> QED BY <1>1, <2>1 DEF EndOf
<1>5. ASSUME NEW m \in Nat, NEW n \in Nat, m <= n
      PROVE  EndOf(m) <= EndOf(n)
  <2>1. n - m \in Nat /\ m + (n - m) = n
    BY <1>5
  <2>2. EndOf(m + (n - m)) = EndOf(m) + rowBytes * (n - m)
    BY <1>2, <2>1
  <2>3. rowBytes * (n - m) \in Nat /\ EndOf(m) \in Nat
    BY <1>1, <1>3, <2>1
  <2>4. EndOf(n) = EndOf(m) + rowBytes * (n - m)
    BY <2>1, <2>2
  <2> QED BY <2>3, <2>4
<1>6. EndOf(0) = HeaderBytes
  BY <1>1 DEF EndOf
<1>7. Encoded = EndOf(Height) + 1 /\ Encoded \in Nat
  BY <1>1, <1>3 DEF Encoded
<1> QED BY <1>2, <1>3, <1>4, <1>5, <1>6, <1>7

(* The image does not change while it is written and read.                 *)
LEMMA PlacesStay ==
  ASSUME rowBytes' = rowBytes
  PROVE  Encoded' = Encoded /\ \A n : EndOf(n)' = EndOf(n)
BY DEF Encoded, EndOf

-----------------------------------------------------------------------------
(* The writer.                                                             *)

(* What the receiver has after it took the first n bytes of the buffer.    *)
LEMMA Receiving ==
  ASSUME WriterTypes, NEW n \in 0..WriteBuf, Receive(n)
  PROVE  /\ file' \in Seq(Nat) /\ Len(file') = Len(file) + n
         /\ \A i \in 1..Len(file) : file'[i] = file[i]
         /\ \A i \in 1..n : file'[Len(file) + i] = wbuf[i]
         /\ \A i \in 1..Len(file') : file'[i] \in 0..Encoded
<1>1. /\ file \in Seq(Nat) /\ wbuf \in [1..WriteBuf -> 0..Encoded]
      /\ rowBytes \in Nat \ {0} /\ \A i \in 1..Len(file) : file[i] \in 0..Encoded
  BY DEF WriterTypes, WTypeOK
<1>2. Encoded \in Nat /\ WriteBuf \in Nat
  BY <1>1, EndFacts, Sizes
<1> HIDE DEF Encoded
<1>3. wbuf \in Seq(Nat) /\ Len(wbuf) = WriteBuf
  BY <1>1, <1>2
<1>4. /\ SubSeq(wbuf, 1, n) \in Seq(Nat) /\ Len(SubSeq(wbuf, 1, n)) = n
      /\ \A i \in 1..n : SubSeq(wbuf, 1, n)[i] = wbuf[i]
  BY <1>2, <1>3
<1>5. file' = file \o SubSeq(wbuf, 1, n)
  BY DEF Receive
<1>6. /\ file' \in Seq(Nat) /\ Len(file') = Len(file) + n
      /\ \A i \in 1..Len(file) : file'[i] = file[i]
      /\ \A i \in 1..n : file'[Len(file) + i] = wbuf[i]
  BY <1>1, <1>4, <1>5
<1>7. \A i \in 1..Len(file') : file'[i] \in 0..Encoded
  <2> SUFFICES ASSUME NEW i \in 1..Len(file') PROVE file'[i] \in 0..Encoded
    OBVIOUS
  <2>1. CASE i <= Len(file)
    <3>1. i \in 1..Len(file)
      BY <1>2, <1>6, <2>1
    <3> QED BY <1>1, <1>6, <3>1
  <2>2. CASE i > Len(file)
    <3>1. i - Len(file) \in 1..n /\ i = Len(file) + (i - Len(file))
      BY <1>1, <1>6, <2>2
    <3>2. i - Len(file) \in 1..WriteBuf
      BY <1>2, <3>1
    <3> QED BY <1>1, <1>6, <3>1, <3>2
  <2> QED BY <1>1, <1>6, <2>1, <2>2
<1> QED BY <1>6, <1>7

(* What the invariant says in the words of the actions.                    *)
LEMMA WriterFacts ==
  ASSUME WInv
  PROVE  /\ rowBytes \in Nat \ {0} /\ rowBytes \in Nat /\ Encoded \in Nat
         /\ Encoded = EndOf(Height) + 1 /\ Encoded > HeaderBytes
         /\ file \in Seq(Nat) /\ Len(file) \in Nat
         /\ \A i \in 1..Len(file) : file[i] \in 0..Encoded
         /\ wbuf \in [1..WriteBuf -> 0..Encoded]
         /\ free \in Nat /\ free <= WriteBuf /\ emitted \in Nat /\ todo \in Nat
         /\ emitted + todo <= Encoded
         /\ written \in Nat /\ written <= Height
         /\ wptr \in BOOLEAN /\ wthrown \in BOOLEAN /\ wdeleted \in Nat
         /\ putFailed \in {"no", "strip", "finish"}
         /\ wpc \in {"new", "image", "strip", "disposing", "finish", "put", "closed"}
<1>1. WriterTypes /\ Made
  BY DEF WInv
<1>2. rowBytes \in Nat \ {0}
  BY <1>1 DEF WriterTypes
<1>3. Encoded \in Nat /\ Encoded = EndOf(Height) + 1 /\ EndOf(Height) >= HeaderBytes
      /\ EndOf(Height) \in Nat
  BY <1>2, Sizes, EndFacts
<1>4. Encoded > HeaderBytes
  BY <1>3, Sizes
<1> QED BY <1>1, <1>2, <1>3, <1>4, Sizes DEF WriterTypes, WTypeOK, Made

(* beginWrite() puts the header into an empty buffer.                      *)
LEMMA BeginWriteKeepsInv ==
  ASSUME WInv, BeginWrite
  PROVE  WInv'
<1>1. /\ Encoded' = Encoded /\ \A n : EndOf(n)' = EndOf(n)
  BY PlacesStay DEF BeginWrite
<1>2. /\ wpc = "new" /\ wptr' = TRUE /\ free' = WriteBuf - HeaderBytes
      /\ emitted' = HeaderBytes /\ wpc' = "image" /\ emitted = 0 /\ todo = 0
      /\ wbuf' = [i \in 1..WriteBuf |-> IF i <= HeaderBytes THEN i ELSE wbuf[i]]
  BY WriterFacts DEF BeginWrite, WInv, Made
<1>3. WriterTypes'
  <2>1. wbuf' \in [1..WriteBuf -> 0..Encoded]
    BY <1>2, WriterFacts, Sizes
  <2>2. free' \in 0..WriteBuf /\ emitted' \in 0..Encoded
    BY <1>2, WriterFacts, Sizes
  <2> QED BY <1>1, <1>2, <2>1, <2>2 DEF BeginWrite, WInv, WriterTypes, WTypeOK
<1>4. WriterAlive' /\ PutFailures'
  BY <1>2 DEF BeginWrite, WInv, WriterAlive, PutFailures
<1>5. Made'
  <2>1. written = 0
    BY <1>2 DEF WInv, Made
  <2>3. EndOf(0) = HeaderBytes
    BY WriterFacts, EndFacts
  <2> QED BY <1>1, <1>2, <2>1, <2>3, WriterFacts, Sizes DEF BeginWrite, Made
<1>6. Received'
  <2>1. putFailed' = putFailed /\ file' = file
    BY DEF BeginWrite
  <2>2. CASE putFailed = "no"
    <3>1. file = << >>
      BY <1>2, <2>2 DEF WInv, Received
    <3>2. WriteBuf - free' = HeaderBytes /\ Len(file) = 0
      BY <1>2, <3>1, Sizes
    <3>3. \A i \in 1..HeaderBytes : wbuf'[i] = i
      BY <1>2, Sizes
    <3> QED BY <1>2, <2>1, <3>1, <3>2, <3>3, Sizes DEF Received
  <2> QED BY <2>1, <2>2 DEF Received
<1> QED BY <1>3, <1>4, <1>5, <1>6 DEF WInv

(* The bytes of a strip end where its last scanline does.                  *)
LEMMA NextStripKeepsInv ==
  ASSUME WInv, NextStrip
  PROVE  WInv'
<1> DEFINE m == Min({WriteStrip, Height - written})
<1>1. /\ Encoded' = Encoded /\ \A n : EndOf(n)' = EndOf(n)
  BY PlacesStay DEF NextStrip
<1>2. /\ wpc = "image" /\ written < Height /\ todo' = rowBytes * m /\ wpc' = "strip"
      /\ todo = 0 /\ emitted = EndOf(written)
  BY WriterFacts DEF NextStrip, WInv, Made
<1>3. m \in Nat /\ written + m = Min({written + WriteStrip, Height}) /\ written + m <= Height
  <2>1. /\ WriteStrip \in Nat /\ Height - written \in Nat /\ written \in Nat /\ Height \in Nat
    BY <1>2, WriterFacts, Sizes
  <2>2. m = IF WriteStrip <= Height - written THEN WriteStrip ELSE Height - written
    BY <2>1, MinOfTwo
  <2>3. Min({written + WriteStrip, Height}) =
          IF written + WriteStrip <= Height THEN written + WriteStrip ELSE Height
    BY <2>1, MinOfTwo
  <2> QED BY <2>1, <2>2, <2>3
<1> HIDE DEF m
<1>4. /\ todo' \in Nat /\ emitted + todo' = EndOf(written + m) /\ emitted + todo' <= Encoded
  <2>1. rowBytes * m \in Nat
    BY <1>3, WriterFacts
  <2>2. EndOf(written + m) = EndOf(written) + rowBytes * m
    BY <1>3, WriterFacts, EndFacts
  <2>3. EndOf(written + m) <= EndOf(Height) /\ EndOf(Height) \in Nat /\ EndOf(written + m) \in Nat
    <3>1. written + m \in Nat /\ Height \in Nat /\ rowBytes \in Nat \ {0}
      BY <1>3, WriterFacts, Sizes
    <3> QED BY <1>3, <3>1, EndFacts
  <2> QED BY <1>2, <2>1, <2>2, <2>3, WriterFacts
<1>5. WriterTypes'
  <2>1. todo' \in 0..Encoded
    BY <1>4, WriterFacts
  <2> QED BY <1>1, <1>2, <2>1 DEF NextStrip, WInv, WriterTypes, WTypeOK
<1>6. WriterAlive' /\ PutFailures'
  BY <1>2 DEF NextStrip, WInv, WriterAlive, PutFailures
<1>7. Made'
  BY <1>1, <1>2, <1>3, <1>4 DEF NextStrip, Made
<1>8. Received'
  BY <1>2 DEF NextStrip, WInv, Received
<1> QED BY <1>5, <1>6, <1>7, <1>8 DEF WInv

(* The compressor puts its next byte where the buffer has its next place.  *)
LEMMA EmitKeepsInv ==
  ASSUME WInv, Emit
  PROVE  WInv'
<1>1. /\ Encoded' = Encoded /\ \A n : EndOf(n)' = EndOf(n)
  BY PlacesStay DEF Emit
<1>2. /\ todo > 0 /\ free > 0 /\ wpc \in {"strip", "finish"} /\ wpc' = wpc /\ written' = written
      /\ free' = free - 1 /\ emitted' = emitted + 1 /\ todo' = todo - 1
      /\ wbuf' = [wbuf EXCEPT ![WriteBuf - free + 1] = emitted + 1]
  BY WriterFacts DEF Emit, WInv, Made
<1>0. /\ free \in Nat /\ free <= WriteBuf /\ WriteBuf \in Nat /\ Len(file) \in Nat
      /\ emitted \in Nat /\ todo \in Nat /\ emitted + todo <= Encoded /\ Encoded \in Nat
  BY WriterFacts, Sizes
<1>3. /\ free' \in 0..WriteBuf /\ todo' \in Nat /\ emitted' \in Nat
      /\ emitted' + todo' = emitted + todo /\ emitted' <= Encoded /\ todo' <= Encoded
      /\ WriteBuf - free + 1 \in 1..WriteBuf /\ WriteBuf - free' = WriteBuf - free + 1
  BY <1>0, <1>2
<1>4. WriterTypes'
  <2>1. wbuf' \in [1..WriteBuf -> 0..Encoded]
    BY <1>2, <1>3, WriterFacts
  <2>2. emitted' \in 0..Encoded /\ todo' \in 0..Encoded
    BY <1>3, WriterFacts
  <2> QED BY <1>1, <1>3, <2>1, <2>2 DEF Emit, WInv, WriterTypes, WTypeOK
<1>5. WriterAlive' /\ PutFailures'
  BY DEF Emit, WInv, WriterAlive, PutFailures
<1>6. Made'
  BY <1>1, <1>2, <1>3 DEF WInv, Made
<1>7. Received'
  <2>1. putFailed' = putFailed /\ file' = file
    BY DEF Emit
  <2>2. CASE putFailed = "no"
    <3>1. /\ Len(file) + (WriteBuf - free) = emitted
          /\ \A i \in 1..(WriteBuf - free) : wbuf[i] = Len(file) + i
          /\ \A i \in 1..Len(file) : file[i] = i
      BY <1>2, <2>2 DEF WInv, Received
    <3>2. Len(file) + (WriteBuf - free') = emitted'
      BY <1>0, <1>2, <1>3, <3>1
    <3>3. \A i \in 1..(WriteBuf - free') : wbuf'[i] = Len(file) + i
      <4> SUFFICES ASSUME NEW i \in 1..(WriteBuf - free') PROVE wbuf'[i] = Len(file) + i
        OBVIOUS
      <4>0. /\ WriteBuf - free' \in Nat /\ WriteBuf - free' <= WriteBuf /\ i \in Nat
            /\ WriteBuf - free \in Nat
        BY <1>0, <1>2
      <4>1. i \in 1..WriteBuf
        BY <1>0, <4>0
      <4>2. CASE i = WriteBuf - free + 1
        BY <1>2, <1>3, <3>2, <4>1, <4>2, WriterFacts
      <4>3. CASE i # WriteBuf - free + 1
        <5>1. i \in 1..(WriteBuf - free)
          BY <1>3, <4>0, <4>3
        <5>2. wbuf'[i] = wbuf[i]
          BY <1>2, <4>1, <4>3, WriterFacts
        <5> QED BY <3>1, <5>1, <5>2
      <4> QED BY <4>2, <4>3
    <3> QED BY <1>2, <2>1, <3>1, <3>2, <3>3 DEF Received
  <2> QED BY <2>1, <2>2 DEF Received
<1> QED BY <1>4, <1>5, <1>6, <1>7 DEF WInv

(* A call that a put fails in, after any part of the bytes was taken.      *)
LEMMA FailedCallKeepsInv ==
  ASSUME WInv, wpc \in {"strip", "finish"}, NEW n \in 0..WriteBuf, ReceiveFails(n), WriteCallFails,
         UNCHANGED <<rowBytes, wptr, wbuf, emitted, written, free>>
  PROVE  WInv'
<1>1. /\ Encoded' = Encoded /\ \A k : EndOf(k)' = EndOf(k)
  BY PlacesStay
<1>2. /\ putFailed' = wpc /\ todo' = 0 /\ wthrown' = (wthrown \/ wpc = "strip")
      /\ wpc' = (IF wpc = "strip" THEN "disposing" ELSE "put")
      /\ wdeleted' = (IF wpc = "strip" THEN wdeleted ELSE wdeleted + 1)
  BY DEF ReceiveFails, WriteCallFails
<1>3. /\ file' \in Seq(Nat) /\ \A i \in 1..Len(file') : file'[i] \in 0..Encoded
  <2>1. PICK k \in 0..n : Receive(k)
    BY DEF ReceiveFails
  <2>2. k \in 0..WriteBuf
    BY <2>1, Sizes
  <2> QED BY <2>1, <2>2, Receiving DEF WInv
<1>4. WriterTypes'
  <2>1. wdeleted' \in Nat /\ wthrown' \in BOOLEAN /\ 0 \in 0..Encoded
    BY <1>2, WriterFacts
  <2> QED BY <1>1, <1>2, <1>3, <2>1 DEF WInv, WriterTypes, WTypeOK
<1>5. WriterAlive'
  BY <1>2 DEF WInv, WriterAlive
<1>6. PutFailures'
  BY <1>2 DEF WInv, PutFailures, Made
<1>7. Made'
  <2>1. emitted + 0 <= Encoded
    BY WriterFacts
  <2>2. wpc = "strip" => written < Height /\ written # Height
    BY WriterFacts, Sizes DEF WInv, Made
  <2> QED BY <1>1, <1>2, <2>1, <2>2 DEF Made
<1>8. Received'
  BY <1>2 DEF Received
<1> QED BY <1>4, <1>5, <1>6, <1>7, <1>8 DEF WInv

(* A full buffer goes to the receiver, and the buffer is empty.            *)
LEMMA EmptyOutputBufferKeepsInv ==
  ASSUME WInv, EmptyOutputBuffer
  PROVE  WInv'
<1>0. WriteBuf \in 0..WriteBuf /\ WriteBuf - WriteBuf = 0 /\ WriteBuf - 0 = WriteBuf
  BY Sizes
<1>1. CASE ReceiveFails(WriteBuf) /\ WriteCallFails /\ UNCHANGED free
  BY <1>0, <1>1, FailedCallKeepsInv DEF EmptyOutputBuffer
<1>2. CASE Receive(WriteBuf) /\ free' = WriteBuf /\
           UNCHANGED <<wpc, todo, wthrown, wdeleted, putFailed>>
  <2>1. /\ Encoded' = Encoded /\ \A k : EndOf(k)' = EndOf(k)
    BY PlacesStay DEF EmptyOutputBuffer
  <2>2. /\ file' \in Seq(Nat) /\ Len(file') = Len(file) + WriteBuf
        /\ \A i \in 1..Len(file) : file'[i] = file[i]
        /\ \A i \in 1..WriteBuf : file'[Len(file) + i] = wbuf[i]
        /\ \A i \in 1..Len(file') : file'[i] \in 0..Encoded
    BY <1>0, <1>2, Receiving DEF WInv
  <2>3. free = 0 /\ wpc \in {"strip", "finish"} /\ UNCHANGED <<rowBytes, wptr, wbuf, emitted, written>>
    BY DEF EmptyOutputBuffer
  <2>4. WriterTypes'
    BY <1>0, <1>2, <2>1, <2>2, <2>3 DEF WInv, WriterTypes, WTypeOK
  <2>5. WriterAlive' /\ PutFailures'
    BY <1>2, <2>3 DEF WInv, WriterAlive, PutFailures
  <2>6. Made'
    BY <1>2, <2>1, <2>3 DEF WInv, Made
  <2>7. Received'
    <3>1. CASE putFailed = "no"
      <4>1. /\ Len(file) + WriteBuf = emitted
            /\ \A i \in 1..WriteBuf : wbuf[i] = Len(file) + i
            /\ \A i \in 1..Len(file) : file[i] = i
        BY <1>0, <2>3, <3>1 DEF WInv, Received
      <4>2. Len(file') + (WriteBuf - free') = emitted'
        BY <1>0, <1>2, <2>2, <2>3, <4>1, WriterFacts, Sizes
      <4>3. \A i \in 1..Len(file') : file'[i] = i
        <5> SUFFICES ASSUME NEW i \in 1..Len(file') PROVE file'[i] = i
          OBVIOUS
        <5>0. Len(file) \in Nat /\ WriteBuf \in Nat /\ i \in Nat
          BY <2>2, WriterFacts, Sizes
        <5>1. CASE i <= Len(file)
          <6>1. i \in 1..Len(file)
            BY <2>2, <5>0, <5>1
          <6> QED BY <2>2, <4>1, <6>1
        <5>2. CASE i > Len(file)
          <6>1. i - Len(file) \in 1..WriteBuf /\ Len(file) + (i - Len(file)) = i
            BY <2>2, <5>0, <5>2
          <6> QED BY <2>2, <4>1, <6>1
        <5> QED BY <5>0, <5>1, <5>2
      <4> QED BY <1>0, <1>2, <2>3, <4>2, <4>3 DEF Received
    <3> QED BY <1>2, <3>1 DEF Received
  <2> QED BY <2>4, <2>5, <2>6, <2>7 DEF WInv
<1> QED BY <1>1, <1>2 DEF EmptyOutputBuffer

(* A strip is written with its last byte.                                  *)
LEMMA StripWrittenKeepsInv ==
  ASSUME WInv, StripWritten
  PROVE  WInv'
<1>1. /\ Encoded' = Encoded /\ \A n : EndOf(n)' = EndOf(n)
  BY PlacesStay DEF StripWritten
<1>2. /\ wpc = "strip" /\ todo = 0 /\ written' = Min({written + WriteStrip, Height})
      /\ wpc' = "image" /\ emitted + todo = EndOf(Min({written + WriteStrip, Height}))
  BY DEF StripWritten, WInv, Made
<1>3. written' \in 0..Height
  <2>1. written \in Nat /\ WriteStrip \in Nat /\ Height \in Nat
    BY WriterFacts, Sizes
  <2>2. written' = IF written + WriteStrip <= Height THEN written + WriteStrip ELSE Height
    BY <1>2, <2>1, MinOfTwo
  <2> QED BY <2>1, <2>2
<1>4. emitted = EndOf(written')
  BY <1>2, WriterFacts
<1>5. WriterTypes'
  BY <1>1, <1>2, <1>3 DEF StripWritten, WInv, WriterTypes, WTypeOK
<1>6. WriterAlive' /\ PutFailures'
  BY <1>2 DEF StripWritten, WInv, WriterAlive, PutFailures
<1>7. Made'
  BY <1>1, <1>2, <1>4 DEF StripWritten, WInv, Made
<1>8. Received'
  BY <1>2 DEF StripWritten, WInv, Received
<1> QED BY <1>5, <1>6, <1>7, <1>8 DEF WInv

(* writeImage() is left, early or not.                                     *)
LEMMA LeaveImageKeepsInv ==
  ASSUME WInv, LeaveImage
  PROVE  WInv'
<1>1. /\ Encoded' = Encoded /\ \A n : EndOf(n)' = EndOf(n)
  BY PlacesStay DEF LeaveImage
<1>2. wpc = "image" /\ wpc' = "disposing" /\ todo = 0 /\ emitted = EndOf(written)
  BY WriterFacts DEF LeaveImage, WInv, Made
<1>3. WriterTypes'
  BY <1>1, <1>2 DEF LeaveImage, WInv, WriterTypes, WTypeOK
<1>4. WriterAlive' /\ PutFailures'
  BY <1>2 DEF LeaveImage, WInv, WriterAlive, PutFailures
<1>5. Made'
  BY <1>1, <1>2 DEF LeaveImage, WInv, Made
<1>6. Received'
  BY <1>2 DEF LeaveImage, WInv, Received
<1> QED BY <1>3, <1>4, <1>5, <1>6 DEF WInv

(* dispose() deletes the writer, or has the last marker made first.        *)
LEMMA DisposeWriterKeepsInv ==
  ASSUME WInv, DisposeWriter
  PROVE  WInv'
<1>1. /\ Encoded' = Encoded /\ \A n : EndOf(n)' = EndOf(n)
  BY PlacesStay DEF DisposeWriter
<1>2. /\ wpc = "disposing" /\ wptr' = FALSE /\ todo = 0
      /\ UNCHANGED <<rowBytes, file, wbuf, free, emitted, written, putFailed>>
  BY WriterFacts DEF DisposeWriter, WInv, Made
<1>3. CASE written < Height
  <2>1. wthrown' = TRUE /\ wdeleted' = wdeleted + 1 /\ wpc' = "put" /\ todo' = todo
    BY <1>3 DEF DisposeWriter
  <2>2. WriterTypes'
    <3>1. wthrown' \in BOOLEAN /\ wptr' \in BOOLEAN
      BY <1>2, <2>1, Zenon
    <3>2. wdeleted' \in Nat
      <4>1. wdeleted \in Nat
        BY WriterFacts
      <4> QED BY <2>1, <4>1
    <3> QED BY <1>1, <1>2, <2>1, <3>1, <3>2 DEF WInv, WriterTypes, WTypeOK
  <2>3. WriterAlive' /\ PutFailures'
    BY <1>2, <2>1 DEF WInv, WriterAlive, PutFailures
  <2>4. Made'
    BY <1>1, <1>2, <2>1 DEF WInv, Made
  <2>5. Received'
    <3>1. putFailed = "no" => Len(file) <= emitted
      BY <1>2, WriterFacts, Sizes DEF WInv, Received
    <3> QED BY <1>2, <2>1, <3>1 DEF WInv, Received
  <2> QED BY <2>2, <2>3, <2>4, <2>5 DEF WInv
<1>4. CASE ~(written < Height)
  <2>1. todo' = 1 /\ wpc' = "finish" /\ wthrown' = wthrown /\ wdeleted' = wdeleted
    BY <1>4 DEF DisposeWriter
  <2>2. written = Height
    BY <1>4, WriterFacts, Sizes
  <2>3. emitted = EndOf(Height) /\ emitted + 1 = Encoded /\ 1 \in 0..Encoded
    BY <1>2, <2>2, WriterFacts, Sizes DEF WInv, Made
  <2>4. ~wthrown /\ putFailed = "no"
    BY <1>2, <1>4, WriterFacts DEF WInv, PutFailures
  <2>5. WriterTypes'
    BY <1>1, <1>2, <2>1, <2>3 DEF WInv, WriterTypes, WTypeOK
  <2>6. WriterAlive' /\ PutFailures'
    BY <1>2, <2>1, <2>4 DEF WInv, WriterAlive, PutFailures
  <2>7. Made'
    <3>1. emitted' + todo' = Encoded /\ Encoded <= Encoded
      BY <1>2, <2>1, <2>3, WriterFacts
    <3> QED BY <1>1, <2>1, <3>1 DEF Made
  <2>8. Received'
    BY <1>2, <2>1 DEF WInv, Received
  <2> QED BY <2>5, <2>6, <2>7, <2>8 DEF WInv
<1> QED BY <1>3, <1>4

(* The rest of the buffer goes to the receiver.                            *)
LEMMA TermDestinationKeepsInv ==
  ASSUME WInv, TermDestination
  PROVE  WInv'
<1> DEFINE n == WriteBuf - free
<1>0. n \in 0..WriteBuf /\ n \in Nat
  BY WriterFacts, Sizes
<1>1. CASE ReceiveFails(n) /\ WriteCallFails
  BY <1>0, <1>1, FailedCallKeepsInv DEF TermDestination
<1>2. CASE Receive(n) /\ wdeleted' = wdeleted + 1 /\ wpc' = "put" /\
           UNCHANGED <<todo, wthrown, putFailed>>
  <2>1. /\ Encoded' = Encoded /\ \A k : EndOf(k)' = EndOf(k)
    BY PlacesStay DEF TermDestination
  <2>2. /\ file' \in Seq(Nat) /\ Len(file') = Len(file) + n
        /\ \A i \in 1..Len(file) : file'[i] = file[i]
        /\ \A i \in 1..n : file'[Len(file) + i] = wbuf[i]
        /\ \A i \in 1..Len(file') : file'[i] \in 0..Encoded
    BY <1>0, <1>2, Receiving DEF WInv
  <2>3. /\ wpc = "finish" /\ todo = 0
        /\ UNCHANGED <<rowBytes, wptr, wbuf, free, emitted, written>>
    BY DEF TermDestination
  <2>4. emitted = Encoded /\ ~wthrown
    BY <2>3, WriterFacts DEF WInv, Made, PutFailures
  <2>5. WriterTypes'
    BY <1>2, <2>1, <2>2, <2>3 DEF WInv, WriterTypes, WTypeOK
  <2>6. WriterAlive' /\ PutFailures'
    BY <1>2, <2>3 DEF WInv, WriterAlive, PutFailures
  <2>7. Made'
    BY <1>2, <2>1, <2>3, <2>4 DEF WInv, Made
  <2>8. Received'
    <3>1. CASE putFailed = "no"
      <4>1. /\ Len(file) + n = emitted
            /\ \A i \in 1..n : wbuf[i] = Len(file) + i
            /\ \A i \in 1..Len(file) : file[i] = i
        BY <2>3, <3>1 DEF WInv, Received
      <4>2. Len(file') = emitted' /\ Len(file') <= emitted'
        BY <2>2, <2>3, <4>1, WriterFacts
      <4>3. \A i \in 1..Len(file') : file'[i] = i
        <5> SUFFICES ASSUME NEW i \in 1..Len(file') PROVE file'[i] = i
          OBVIOUS
        <5>0. Len(file) \in Nat /\ i \in Nat
          BY <2>2, WriterFacts
        <5> HIDE DEF n
        <5>1. CASE i <= Len(file)
          <6>1. i \in 1..Len(file)
            BY <2>2, <5>0, <5>1
          <6> QED BY <2>2, <4>1, <6>1
        <5>2. CASE i > Len(file)
          <6>1. i - Len(file) \in 1..n /\ Len(file) + (i - Len(file)) = i
            BY <1>0, <2>2, <5>0, <5>2
          <6> QED BY <2>2, <4>1, <6>1
        <5> QED BY <5>0, <5>1, <5>2
      <4> QED BY <1>2, <4>2, <4>3 DEF Received
    <3> QED BY <1>2, <3>1 DEF Received
  <2> QED BY <2>5, <2>6, <2>7, <2>8 DEF WInv
<1> QED BY <1>1, <1>2 DEF TermDestination

(* close() finds no writer to delete.                                      *)
LEMMA CloseWriterKeepsInv ==
  ASSUME WInv, CloseWriter
  PROVE  WInv'
<1>1. /\ Encoded' = Encoded /\ \A n : EndOf(n)' = EndOf(n)
  BY PlacesStay DEF CloseWriter
<1>2. /\ wpc = "put" /\ wpc' = "closed" /\ wptr' = FALSE /\ wdeleted' = wdeleted
  BY DEF CloseWriter, WInv, WriterAlive
<1>3. WriterTypes'
  BY <1>1, <1>2 DEF CloseWriter, WInv, WriterTypes, WTypeOK
<1>4. WriterAlive' /\ PutFailures'
  BY <1>2 DEF CloseWriter, WInv, WriterAlive, PutFailures
<1>5. Made'
  BY <1>1, <1>2 DEF CloseWriter, WInv, Made
<1>6. Received'
  BY <1>2 DEF CloseWriter, WInv, Received
<1> QED BY <1>3, <1>4, <1>5, <1>6 DEF WInv

(* A step of the writer, whichever: what was received stays received.      *)
LEMMA WriterStep ==
  ASSUME WInv, WNext
  PROVE  /\ WInv' /\ rowBytes' = rowBytes /\ wpc # "closed" /\ Len(file) <= Len(file')
         /\ putFailed' # "finish" => putFailed # "finish"
<1>1. WInv'
  BY BeginWriteKeepsInv, NextStripKeepsInv, EmitKeepsInv, EmptyOutputBufferKeepsInv,
     StripWrittenKeepsInv, LeaveImageKeepsInv, DisposeWriterKeepsInv, TermDestinationKeepsInv,
     CloseWriterKeepsInv DEF WNext
<1>2. rowBytes' = rowBytes
  BY DEF WNext, BeginWrite, NextStrip, Emit, EmptyOutputBuffer, StripWritten, LeaveImage,
         DisposeWriter, TermDestination, CloseWriter
<1>3. wpc # "closed"
  <2>1. todo > 0 => wpc # "closed"
    BY DEF WInv, Made
  <2> QED BY <2>1 DEF WNext, BeginWrite, NextStrip, Emit, EmptyOutputBuffer, StripWritten,
                      LeaveImage, DisposeWriter, TermDestination, CloseWriter
<1>4. putFailed' # "finish" => putFailed # "finish"
  <2>1. CASE putFailed = "finish"
    <3>1. wpc \in {"put", "closed"} /\ todo = 0
      BY <2>1, WriterFacts DEF WInv, PutFailures, Made
    <3>2. CloseWriter
      BY <3>1 DEF WNext, BeginWrite, NextStrip, Emit, EmptyOutputBuffer, StripWritten,
                  LeaveImage, DisposeWriter, TermDestination
    <3> QED BY <2>1, <3>2 DEF CloseWriter
  <2> QED BY <2>1
<1>5. Len(file) <= Len(file')
  <2>1. ASSUME NEW n \in 0..WriteBuf, Receive(n) PROVE Len(file) <= Len(file')
    <3>1. Len(file') = Len(file) + n /\ Len(file) \in Nat
      BY <2>1, Receiving, WriterFacts DEF WInv
    <3> QED BY <3>1, Sizes
  <2>2. ASSUME NEW n \in 0..WriteBuf, ReceiveFails(n) PROVE Len(file) <= Len(file')
    <3>1. PICK k \in 0..n : Receive(k)
      BY <2>2 DEF ReceiveFails
    <3>2. k \in 0..WriteBuf
      BY Sizes
    <3> QED BY <2>1, <3>1, <3>2
  <2>3. /\ WriteBuf \in 0..WriteBuf /\ WriteBuf - free \in 0..WriteBuf
        /\ Len(file) \in Nat
    BY WriterFacts, Sizes
  <2>4. CASE EmptyOutputBuffer
    BY <2>1, <2>2, <2>3, <2>4 DEF EmptyOutputBuffer
  <2>5. CASE TermDestination
    BY <2>1, <2>2, <2>3, <2>5 DEF TermDestination
  <2>6. CASE file' = file
    BY <2>3, <2>6
  <2> QED BY <2>4, <2>5, <2>6 DEF WNext, BeginWrite, NextStrip, Emit, StripWritten, LeaveImage,
                                  DisposeWriter, CloseWriter
<1> QED BY <1>1, <1>2, <1>3, <1>4, <1>5

(* What was written without an exception is the whole image, unless the    *)
(* last put failed.                                                        *)
LEMMA WholeFile ==
  ASSUME WInv, wpc = "closed", ~wthrown, putFailed # "finish"
  PROVE  Len(file) = Encoded /\ \A i \in 1..Encoded : file[i] = i
<1>1. putFailed = "no"
  BY WriterFacts DEF WInv, PutFailures
<1> QED BY <1>1 DEF WInv, Made, Received

-----------------------------------------------------------------------------
(* The reader.                                                             *)
LEMMA ReaderFacts ==
  ASSUME WInv, RInv
  PROVE  /\ rbuf \in Seq(Nat) /\ Len(rbuf) \in Nat /\ fetched \in Nat /\ fetched <= Len(file)
         /\ skipLeft \in Nat /\ skipLeft <= HeaderBytes
         /\ picture \in Seq(Seq(Nat)) /\ Len(picture) \in Nat /\ Len(picture) <= Height
         /\ stripEnd \in Nat /\ stripEnd <= Height
         /\ rptr \in BOOLEAN /\ startOfFile \in BOOLEAN /\ eoi \in BOOLEAN /\ rthrown \in BOOLEAN
         /\ rdeleted \in Nat
         /\ rpc \in {"new", "header", "skip", "tables", "image", "strip", "disposing", "finish",
                     "got", "closed"}
BY WriterFacts, Sizes DEF RInv, ReaderTypes, RTypeOK

(* A byte of the buffer is taken.                                          *)
LEMMA TakingOne ==
  ASSUME WInv, RInv, rbuf # << >>, rbuf' = Tail(rbuf), fetched' = fetched
  PROVE  /\ rbuf' \in Seq(Nat) /\ Len(rbuf') \in 0..Max({ReadBuf, 2})
         /\ Head(rbuf) \in Nat /\ Position' = Position + 1
         /\ putFailed # "finish" /\ rpc \in Reading =>
              /\ Head(rbuf) = Position + 1
              /\ Len(rbuf') <= fetched'
              /\ \A i \in 1..Len(rbuf') : rbuf'[i] = Position' + i
<1>1. /\ rbuf \in Seq(Nat) /\ Len(rbuf) \in Nat /\ Len(rbuf) > 0 /\ fetched \in Nat
      /\ Len(rbuf) \in 0..Max({ReadBuf, 2})
  BY ReaderFacts DEF RInv, ReaderTypes, RTypeOK
<1>2. Max({ReadBuf, 2}) \in Nat
  BY Sizes, MaxOfTwo
<1> HIDE DEF Max
<1>3. /\ rbuf' \in Seq(Nat) /\ Len(rbuf') = Len(rbuf) - 1 /\ Head(rbuf) = rbuf[1]
      /\ \A i \in 1..Len(rbuf') : rbuf'[i] = rbuf[i + 1]
  BY <1>1
<1>4. Len(rbuf') \in 0..Max({ReadBuf, 2})
  BY <1>1, <1>2, <1>3
<1>5. Position' = Position + 1
  BY <1>1, <1>3 DEF Position
<1>6. ASSUME putFailed # "finish", rpc \in Reading
      PROVE  /\ Head(rbuf) = Position + 1
             /\ Len(rbuf') <= fetched'
             /\ \A i \in 1..Len(rbuf') : rbuf'[i] = Position' + i
  <2>1. Len(rbuf) <= fetched /\ \A i \in 1..Len(rbuf) : rbuf[i] = Position + i
    BY <1>6 DEF RInv, Fetched
  <2>2. 1 \in 1..Len(rbuf)
    BY <1>1
  <2>3. Position \in Int
    BY <1>1 DEF Position
  <2>4. ASSUME NEW i \in 1..Len(rbuf') PROVE rbuf'[i] = Position' + i
    <3>1. i + 1 \in 1..Len(rbuf) /\ rbuf'[i] = rbuf[i + 1]
      BY <1>1, <1>3
    <3> QED BY <1>5, <2>1, <2>3, <3>1
  <2> QED BY <1>1, <1>3, <2>1, <2>2, <2>4
<1> QED BY <1>1, <1>3, <1>4, <1>5, <1>6

(* What the file holds when it is read.                                    *)
LEMMA FileIsRead ==
  ASSUME WInv, wpc = "closed", ~wthrown
  PROVE  putFailed # "finish" =>
           Len(file) = Encoded /\ \A i \in 1..Len(file) : file[i] = i
BY WholeFile

(* A step of the reader leaves the writer, the image and its file alone.   *)
Alone == wpc = "closed" /\ ~wthrown /\ UNCHANGED <<rowBytes, file, wvars>>

(* What a step of the reader finds as it was.                              *)
LEMMA AloneFacts ==
  ASSUME Alone
  PROVE  /\ wpc = "closed" /\ ~wthrown /\ rowBytes' = rowBytes /\ file' = file
         /\ putFailed' = putFailed
         /\ Encoded' = Encoded /\ \A n : EndOf(n)' = EndOf(n)
BY PlacesStay DEF Alone, wvars

(* A call that fails, wherever it does.                                    *)
LEMMA ReadCallFailsKeepsInv ==
  ASSUME WInv, RInv, Alone, ReadCallFails, UNCHANGED <<rptr, eoi, picture, stripEnd>>,
         rpc \in {"header", "skip", "tables", "strip", "finish"}
  PROVE  RInv'
<1>1. /\ rpc' = IF rpc = "strip" THEN "disposing" ELSE "got"
      /\ rdeleted' = IF rpc = "strip" THEN rdeleted ELSE rdeleted + 1
      /\ rthrown' = (rthrown \/ rpc \in {"header", "skip", "tables"})
      /\ UNCHANGED <<rbuf, startOfFile, fetched, taken, skipLeft>>
  BY DEF ReadCallFails
<1>2. ReaderTypes'
  <2>1. rdeleted' \in Nat
    <3>1. rdeleted \in Nat
      BY ReaderFacts
    <3> QED BY <1>1, <3>1
  <2>2. rthrown' \in BOOLEAN
    BY <1>1, Zenon
  <2> QED BY <1>1, <2>1, <2>2, AloneFacts DEF RInv, ReaderTypes, RTypeOK
<1>3. ReaderAlive'
  BY <1>1 DEF RInv, ReaderAlive
<1>4. Fetched'
  BY <1>1 DEF Fetched, Reading
<1>5. Taken'
  BY <1>1, AloneFacts DEF RInv, Taken, Reading
<1>6. Decoded'
  BY <1>1, AloneFacts DEF RInv, Decoded, LastIsWhole
<1> QED BY <1>2, <1>3, <1>4, <1>5, <1>6 DEF RInv

(* The buffer is filled, at a place that is inside the file.               *)
LEMMA Filling ==
  ASSUME WInv, RInv, Alone, NEW left, FillInputBuffer(left), ~ReadCallFails
  PROVE  /\ rbuf' \in Seq(Nat) /\ Len(rbuf') \in 0..Max({ReadBuf, 2})
         /\ fetched' \in 0..Len(file)
         /\ startOfFile' = FALSE /\ skipLeft' = left
         /\ UNCHANGED <<rpc, rthrown, rdeleted>>
         /\ putFailed # "finish" /\ fetched < Encoded =>
              /\ Position' = fetched /\ Len(rbuf') <= fetched'
              /\ \A i \in 1..Len(rbuf') : rbuf'[i] = Position' + i
<1>1. /\ startOfFile' = FALSE /\ skipLeft' = left /\ UNCHANGED <<rpc, rthrown, rdeleted>>
  BY DEF FillInputBuffer
<1>2. /\ fetched \in Nat /\ fetched <= Len(file) /\ Len(file) \in Nat /\ file \in Seq(Nat)
      /\ ReadBuf \in Nat /\ ReadBuf > 0
  BY ReaderFacts, WriterFacts, Sizes
<1>3. Max({ReadBuf, 2}) = IF ReadBuf >= 2 THEN ReadBuf ELSE 2
  BY <1>2, MaxOfTwo
<1>4. CASE /\ fetched < Len(file)
           /\ \E k \in 1..Min({ReadBuf, Len(file) - fetched}) :
                rbuf' = SubSeq(file, fetched + 1, fetched + k) /\ fetched' = fetched + k
  <2>1. Min({ReadBuf, Len(file) - fetched}) =
          IF ReadBuf <= Len(file) - fetched THEN ReadBuf ELSE Len(file) - fetched
    BY <1>2, MinOfTwo
  <2>2. PICK k \in 1..Min({ReadBuf, Len(file) - fetched}) :
          rbuf' = SubSeq(file, fetched + 1, fetched + k) /\ fetched' = fetched + k
    BY <1>4
  <2>3. k \in Nat /\ k <= ReadBuf /\ fetched + k <= Len(file)
    BY <1>2, <2>1
  <2>4. /\ rbuf' \in Seq(Nat) /\ Len(rbuf') = k
        /\ \A i \in 1..k : rbuf'[i] = file[fetched + i]
    <3>1. \A i \in (fetched + 1)..(fetched + k) : file[i] \in Nat
      BY <1>2, <2>3
    <3>2. /\ SubSeq(file, fetched + 1, fetched + k) \in Seq(Nat)
          /\ Len(SubSeq(file, fetched + 1, fetched + k)) = k
          /\ \A i \in 1..k : SubSeq(file, fetched + 1, fetched + k)[i] = file[fetched + i]
      BY <1>2, <2>3
    <3> QED BY <2>2, <3>2
  <2>5. Position' = fetched
    BY <1>2, <2>2, <2>3, <2>4 DEF Position
  <2>6. Len(rbuf') \in 0..Max({ReadBuf, 2}) /\ fetched' \in 0..Len(file) /\ Len(rbuf') <= fetched'
    <3>1. k <= Max({ReadBuf, 2}) /\ Max({ReadBuf, 2}) \in Nat
      BY <1>2, <1>3, <2>3
    <3>2. k \in 0..Max({ReadBuf, 2})
      BY <2>3, <3>1
    <3>3. fetched' \in 0..Len(file) /\ k <= fetched'
      BY <1>2, <2>2, <2>3
    <3> QED BY <2>4, <3>2, <3>3
  <2>7. ASSUME putFailed # "finish"
        PROVE  \A i \in 1..Len(rbuf') : rbuf'[i] = Position' + i
    <3> SUFFICES ASSUME NEW i \in 1..Len(rbuf') PROVE rbuf'[i] = fetched + i
      BY <2>5
    <3>1. i \in 1..k /\ fetched + i \in 1..Len(file)
      BY <1>2, <2>3, <2>4
    <3>2. file[fetched + i] = fetched + i
      BY <2>7, <3>1, FileIsRead, AloneFacts
    <3> QED BY <2>4, <3>1, <3>2
  <2> QED BY <1>1, <2>4, <2>5, <2>6, <2>7
<1>5. CASE fetched = Len(file) /\ rbuf' = <<FakeEOI, FakeEOI>> /\ fetched' = fetched
  <2>1. rbuf' \in Seq(Nat) /\ Len(rbuf') = 2
    BY <1>5 DEF FakeEOI
  <2>2. Len(rbuf') \in 0..Max({ReadBuf, 2}) /\ fetched' \in 0..Len(file)
    BY <1>2, <1>3, <1>5, <2>1
  <2>3. putFailed = "finish" \/ fetched = Encoded
    <3>1. putFailed # "finish" => Len(file) = Encoded
      BY FileIsRead, AloneFacts
    <3> QED BY <1>5, <3>1
  <2>4. ~(fetched < Encoded) \/ putFailed = "finish"
    BY <1>2, <2>3
  <2> QED BY <1>1, <2>1, <2>2, <2>4
<1> QED BY <1>4, <1>5 DEF FillInputBuffer

(* beginRead() starts before the first byte.                               *)
LEMMA BeginReadKeepsInv ==
  ASSUME WInv, RInv, Alone, BeginRead
  PROVE  RInv'
<1>1. /\ rpc = "new" /\ rpc' = "header" /\ startOfFile' = TRUE
      /\ UNCHANGED <<rptr, rbuf, fetched, taken, skipLeft, eoi, picture, stripEnd, rthrown,
                     rdeleted>>
  BY DEF BeginRead
<1>2. ReaderTypes'
  BY <1>1, AloneFacts DEF RInv, ReaderTypes, RTypeOK
<1>3. ReaderAlive'
  BY <1>1 DEF RInv, ReaderAlive
<1>4. Fetched'
  BY <1>1, AloneFacts DEF RInv, Fetched, Reading, Position
<1>5. Taken'
  BY <1>1, AloneFacts DEF RInv, Taken, Reading, Position
<1>6. Decoded'
  BY <1>1, AloneFacts DEF RInv, Decoded, LastIsWhole
<1> QED BY <1>2, <1>3, <1>4, <1>5, <1>6 DEF RInv

(* Where the decoder asks for a byte of an image that is all there.        *)
LEMMA WantedIsInside ==
  ASSUME WInv, RInv, WantsByte, putFailed # "finish", rpc # "finish"
  PROVE  Position \in Nat /\ Position + 1 < Encoded
<1>1. /\ Encoded = EndOf(Height) + 1 /\ Encoded > HeaderBytes /\ rowBytes \in Nat \ {0}
      /\ Encoded \in Nat /\ HeaderBytes \in Nat /\ HeaderBytes > 1
      /\ Len(picture) \in Nat /\ Len(picture) <= Height /\ Height \in Nat
  BY WriterFacts, ReaderFacts, Sizes
<1>2. CASE rpc = "header"
  BY <1>1, <1>2 DEF RInv, Taken
<1>3. CASE rpc = "tables"
  BY <1>1, <1>3 DEF RInv, Taken
<1>4. CASE rpc = "strip" /\ Len(Last(picture)) < rowBytes
  <2>1. Position = EndOf(Len(picture) - 1) + Len(Last(picture)) /\ picture # << >>
    BY <1>4 DEF RInv, Taken, ReaderTypes
  <2>2. picture \in Seq(Seq(Nat)) /\ Len(picture) >= 1
    BY <2>1, ReaderFacts
  <2>3. Len(Last(picture)) \in Nat
    BY <2>2 DEF Last
  <2>4. /\ EndOf(Len(picture)) = EndOf(Len(picture) - 1) + rowBytes
        /\ EndOf(Len(picture)) <= EndOf(Height) /\ EndOf(Len(picture) - 1) \in Nat
        /\ EndOf(Height) \in Nat
    <3>1. Len(picture) - 1 \in Nat /\ (Len(picture) - 1) + 1 = Len(picture)
      BY <1>1, <2>2
    <3> QED BY <1>1, <3>1, EndFacts
  <2> QED BY <1>1, <1>4, <2>1, <2>3, <2>4
<1> QED BY <1>2, <1>3, <1>4 DEF WantsByte

(* The empty buffer is filled with the bytes that come next.               *)
LEMMA RefillKeepsInv ==
  ASSUME WInv, RInv, Alone, Refill
  PROVE  RInv'
<1>1. /\ WantsByte /\ rbuf = << >> /\ FillInputBuffer(skipLeft)
      /\ UNCHANGED <<rptr, eoi, picture, stripEnd>>
  BY DEF Refill
<1>2. rpc \in {"header", "tables", "strip", "finish"}
  BY <1>1 DEF WantsByte
<1>3. CASE ReadCallFails
  BY <1>1, <1>2, <1>3, ReadCallFailsKeepsInv
<1>4. CASE ~ReadCallFails
  <2>1. /\ rbuf' \in Seq(Nat) /\ Len(rbuf') \in 0..Max({ReadBuf, 2})
        /\ fetched' \in 0..Len(file) /\ startOfFile' = FALSE /\ skipLeft' = skipLeft
        /\ UNCHANGED <<rpc, rthrown, rdeleted>>
    BY <1>1, <1>4, Filling
  <2>2. Position = fetched
    BY <1>1, ReaderFacts DEF Position
  <2>3. ASSUME putFailed # "finish", rpc # "finish"
        PROVE  /\ Position' = Position /\ Len(rbuf') <= fetched'
               /\ \A i \in 1..Len(rbuf') : rbuf'[i] = Position' + i
    <3>1. fetched < Encoded
      BY <1>1, <2>2, <2>3, WantedIsInside, WriterFacts
    <3> QED BY <1>1, <1>4, <2>2, <2>3, <3>1, Filling
  <2>4. ReaderTypes'
    BY <1>1, <2>1, AloneFacts DEF RInv, ReaderTypes, RTypeOK
  <2>5. ReaderAlive'
    BY <1>1, <2>1 DEF RInv, ReaderAlive
  <2>6. Fetched'
    BY <2>1, <2>3, AloneFacts DEF Fetched, Reading
  <2>7. Taken'
    BY <1>1, <1>2, <2>1, <2>3, AloneFacts DEF RInv, Taken, Reading
  <2>8. Decoded'
    BY <1>1, <2>1, AloneFacts DEF RInv, Decoded, LastIsWhole
  <2> QED BY <2>4, <2>5, <2>6, <2>7, <2>8 DEF RInv
<1> QED BY <1>3, <1>4

(* The first byte of the header, and how far the skip goes.                *)
LEMMA TakeHeaderKeepsInv ==
  ASSUME WInv, RInv, Alone, TakeHeader
  PROVE  RInv'
<1>1. /\ rpc = "header" /\ rbuf # << >> /\ rbuf' = Tail(rbuf)
      /\ skipLeft' = HeaderBytes - 2 /\ rpc' = "skip"
      /\ UNCHANGED <<rptr, startOfFile, fetched, eoi, picture, stripEnd, rthrown, rdeleted>>
  BY DEF TakeHeader
<1>2. /\ rbuf' \in Seq(Nat) /\ Len(rbuf') \in 0..Max({ReadBuf, 2})
      /\ Position' = Position + 1
      /\ putFailed # "finish" =>
           /\ Len(rbuf') <= fetched'
           /\ \A i \in 1..Len(rbuf') : rbuf'[i] = Position' + i
  BY <1>1, TakingOne DEF Reading
<1>3. ReaderTypes'
  <2>1. skipLeft' \in 0..HeaderBytes
    BY <1>1, Sizes
  <2> QED BY <1>1, <1>2, <2>1, AloneFacts DEF RInv, ReaderTypes, RTypeOK
<1>4. ReaderAlive'
  BY <1>1 DEF RInv, ReaderAlive
<1>5. Fetched'
  BY <1>1, <1>2, AloneFacts DEF Fetched, Reading
<1>6. Taken'
  <2>1. putFailed # "finish" => Position' + skipLeft' = HeaderBytes - 1
    BY <1>1, <1>2, Sizes DEF RInv, Taken
  <2> QED BY <1>1, <2>1, AloneFacts DEF RInv, Taken, Reading
<1>7. Decoded'
  BY <1>1, AloneFacts DEF RInv, Decoded, LastIsWhole
<1> QED BY <1>3, <1>4, <1>5, <1>6, <1>7 DEF RInv

(* A skip that goes past the buffer: the rest of it is kept count of.      *)
LEMMA SkipBufferKeepsInv ==
  ASSUME WInv, RInv, Alone, SkipBuffer
  PROVE  RInv'
<1> DEFINE left == skipLeft - Len(rbuf)
<1>1. /\ rpc = "skip" /\ skipLeft > Len(rbuf) /\ FillInputBuffer(left)
      /\ UNCHANGED <<rptr, eoi, picture, stripEnd>>
  BY DEF SkipBuffer
<1>2. left \in 0..HeaderBytes
  BY <1>1, ReaderFacts, Sizes
<1>3. CASE ReadCallFails
  BY <1>1, <1>3, ReadCallFailsKeepsInv
<1>4. CASE ~ReadCallFails
  <2>1. /\ rbuf' \in Seq(Nat) /\ Len(rbuf') \in 0..Max({ReadBuf, 2})
        /\ fetched' \in 0..Len(file) /\ startOfFile' = FALSE /\ skipLeft' = left
        /\ UNCHANGED <<rpc, rthrown, rdeleted>>
    BY <1>1, <1>4, Filling
  <2>2. Position = fetched - Len(rbuf) /\ fetched \in Nat /\ Len(rbuf) \in Nat /\ skipLeft \in Nat
    BY ReaderFacts DEF Position
  <2>3. ASSUME putFailed # "finish"
        PROVE  /\ Position' + skipLeft' = HeaderBytes - 1 /\ Len(rbuf') <= fetched'
               /\ \A i \in 1..Len(rbuf') : rbuf'[i] = Position' + i
    <3>1. Position + skipLeft = HeaderBytes - 1
      BY <1>1, <2>3 DEF RInv, Taken
    <3>2. fetched < Encoded
      <4>1. fetched < Position + skipLeft
        BY <1>1, <2>2
      <4>2. Encoded \in Nat /\ HeaderBytes \in Nat /\ HeaderBytes < Encoded
        BY WriterFacts, Sizes
      <4> QED BY <2>2, <3>1, <4>1, <4>2
    <3>3. /\ Position' = fetched /\ Len(rbuf') <= fetched'
          /\ \A i \in 1..Len(rbuf') : rbuf'[i] = Position' + i
      BY <1>1, <1>4, <2>3, <3>2, Filling
    <3>4. fetched + left = HeaderBytes - 1
      BY <2>2, <3>1
    <3> QED BY <2>1, <3>3, <3>4
  <2>4. ReaderTypes'
    BY <1>1, <1>2, <2>1, AloneFacts DEF RInv, ReaderTypes, RTypeOK
  <2>5. ReaderAlive'
    BY <1>1, <2>1 DEF RInv, ReaderAlive
  <2>6. Fetched'
    BY <2>1, <2>3, AloneFacts DEF Fetched, Reading
  <2>7. Taken'
    BY <1>1, <2>1, <2>3, AloneFacts DEF RInv, Taken, Reading
  <2>8. Decoded'
    BY <1>1, <2>1, AloneFacts DEF RInv, Decoded, LastIsWhole
  <2> QED BY <2>4, <2>5, <2>6, <2>7, <2>8 DEF RInv
<1> QED BY <1>3, <1>4

(* A skip that ends in the buffer ends at the last byte of the header.     *)
LEMMA SkipRestKeepsInv ==
  ASSUME WInv, RInv, Alone, SkipRest
  PROVE  RInv'
<1>1. /\ rpc = "skip" /\ skipLeft <= Len(rbuf) /\ rpc' = "tables" /\ skipLeft' = 0
      /\ rbuf' = SubSeq(rbuf, skipLeft + 1, Len(rbuf))
      /\ UNCHANGED <<rptr, startOfFile, fetched, eoi, picture, stripEnd, rthrown, rdeleted>>
  BY DEF SkipRest
<1>2. /\ rbuf \in Seq(Nat) /\ Len(rbuf) \in Nat /\ skipLeft \in Nat /\ fetched \in Nat
      /\ Len(rbuf) \in 0..Max({ReadBuf, 2}) /\ Position = fetched - Len(rbuf)
  BY ReaderFacts DEF RInv, ReaderTypes, RTypeOK, Position
<1>3. Max({ReadBuf, 2}) \in Nat
  BY Sizes, MaxOfTwo
<1>4. /\ rbuf' \in Seq(Nat) /\ Len(rbuf') = Len(rbuf) - skipLeft
      /\ \A i \in 1..Len(rbuf') : rbuf'[i] = rbuf[skipLeft + i]
  <2>1. /\ rbuf \in Seq(Nat) /\ Len(rbuf) \in Nat /\ skipLeft \in Nat
        /\ skipLeft <= Len(rbuf) /\ rbuf' = SubSeq(rbuf, skipLeft + 1, Len(rbuf))
    BY <1>1, <1>2
  <2>2. \A i \in (skipLeft + 1)..Len(rbuf) : i \in 1..Len(rbuf) /\ rbuf[i] \in Nat
    BY <2>1
  <2>3. rbuf' \in Seq(Nat) /\ Len(rbuf') = Len(rbuf) - skipLeft
    BY <2>1, <2>2
  <2> QED BY <2>1, <2>3
<1>5. Position' = Position + skipLeft
  <2>1. Position' = fetched' - Len(rbuf')
    BY DEF Position
  <2>2. fetched' = fetched /\ Len(rbuf') = Len(rbuf) - skipLeft
    BY <1>1, <1>4
  <2> QED BY <1>2, <2>1, <2>2
<1>6. ReaderTypes'
  <2>1. Len(rbuf') \in 0..Max({ReadBuf, 2})
    BY <1>1, <1>2, <1>3, <1>4
  <2>2. skipLeft' \in 0..HeaderBytes
    BY <1>1, Sizes
  <2> QED BY <1>1, <1>4, <2>1, <2>2, AloneFacts DEF RInv, ReaderTypes, RTypeOK
<1>7. ReaderAlive'
  BY <1>1 DEF RInv, ReaderAlive
<1>8. Fetched'
  <2>1. ASSUME putFailed # "finish"
        PROVE  /\ Len(rbuf') <= fetched'
               /\ \A i \in 1..Len(rbuf') : rbuf'[i] = Position' + i
    <3>1. Len(rbuf) <= fetched /\ \A i \in 1..Len(rbuf) : rbuf[i] = Position + i
      BY <1>1, <2>1 DEF RInv, Fetched, Reading
    <3>2. ASSUME NEW i \in 1..Len(rbuf') PROVE rbuf'[i] = Position' + i
      <4>1. skipLeft + i \in 1..Len(rbuf)
        BY <1>2, <1>4
      <4> QED BY <1>2, <1>4, <1>5, <3>1, <4>1
    <3> QED BY <1>1, <1>2, <1>4, <3>1, <3>2
  <2> QED BY <1>1, <2>1, AloneFacts DEF Fetched, Reading
<1>9. Taken'
  BY <1>1, <1>5, AloneFacts DEF RInv, Taken, Reading
<1>10. Decoded'
  BY <1>1, AloneFacts DEF RInv, Decoded, LastIsWhole
<1> QED BY <1>6, <1>7, <1>8, <1>9, <1>10 DEF RInv

(* With the last byte of the header the first scanline comes.              *)
LEMMA TakeTablesKeepsInv ==
  ASSUME WInv, RInv, Alone, TakeTables
  PROVE  RInv'
<1>1. rpc = "tables" /\ rbuf # << >> /\ UNCHANGED <<eoi, picture, stripEnd>>
  BY DEF TakeTables
<1>2. CASE Head(rbuf) \in {FakeEOI, Encoded}
  BY <1>1, <1>2, ReadCallFailsKeepsInv DEF TakeTables
<1>3. CASE Head(rbuf) \notin {FakeEOI, Encoded}
  <2>1. /\ rbuf' = Tail(rbuf) /\ rptr' = TRUE /\ rpc' = "image"
        /\ UNCHANGED <<startOfFile, fetched, skipLeft, rthrown, rdeleted>>
    BY <1>3 DEF TakeTables
  <2>2. /\ rbuf' \in Seq(Nat) /\ Len(rbuf') \in 0..Max({ReadBuf, 2})
        /\ Position' = Position + 1
        /\ putFailed # "finish" =>
             /\ Len(rbuf') <= fetched'
             /\ \A i \in 1..Len(rbuf') : rbuf'[i] = Position' + i
    BY <1>1, <2>1, TakingOne DEF Reading
  <2>3. ReaderTypes'
    BY <1>1, <2>1, <2>2, AloneFacts DEF RInv, ReaderTypes, RTypeOK
  <2>4. ReaderAlive'
    BY <1>1, <2>1 DEF RInv, ReaderAlive
  <2>5. Fetched'
    BY <2>1, <2>2, AloneFacts DEF Fetched, Reading
  <2>6. Taken'
    <3>1. putFailed # "finish" => Position' = EndOf(Len(picture)) /\ picture = << >>
      <4>1. EndOf(0) = HeaderBytes
        BY WriterFacts, EndFacts
      <4> QED BY <1>1, <2>2, <4>1, Sizes DEF RInv, Taken
    <3> QED BY <1>1, <2>1, <3>1, AloneFacts DEF RInv, Taken, Reading
  <2>7. Decoded'
    <3>1. putFailed # "finish" => picture = << >>
      BY <1>1 DEF RInv, Taken
    <3> QED BY <1>1, <2>1, <3>1, AloneFacts DEF RInv, Decoded, LastIsWhole
  <2> QED BY <2>3, <2>4, <2>5, <2>6, <2>7 DEF RInv
<1> QED BY <1>2, <1>3

(* The decoder comes to the next scanline when the last one is whole.      *)
LEMMA NewScanline ==
  ASSUME WInv, RInv, Alone, rpc \in {"image", "strip"}, Len(picture) < Height,
         putFailed # "finish" => LastIsWhole,
         picture' = Append(picture, << >>), rpc' = "strip"
  PROVE  /\ picture' \in Seq(Seq(Nat)) /\ picture' # << >>
         /\ Len(picture') = Len(picture) + 1 /\ Len(picture') \in 0..Height
         /\ Last(picture') = << >> /\ Decoded'
<1>1. /\ picture \in Seq(Seq(Nat)) /\ Len(picture) \in Nat /\ Height \in Nat
      /\ << >> \in Seq(Nat) /\ rowBytes \in Nat
  BY ReaderFacts, WriterFacts, Sizes
<1>2. /\ picture' \in Seq(Seq(Nat)) /\ Len(picture') = Len(picture) + 1
      /\ \A n \in 1..Len(picture) : picture'[n] = picture[n]
      /\ picture'[Len(picture) + 1] = << >>
  BY <1>1
<1>3. picture' # << >> /\ Len(picture') \in 0..Height
  BY <1>1, <1>2
<1>4. Last(picture') = << >>
  BY <1>1, <1>2 DEF Last
<1>5. Decoded'
  <2>1. ASSUME putFailed # "finish", NEW n \in 1..Len(picture')
        PROVE  /\ Len(picture'[n]) <= rowBytes
               /\ n < Len(picture') => Len(picture'[n]) = rowBytes
               /\ \A i \in 1..Len(picture'[n]) : picture'[n][i] = EndOf(n - 1) + i
    <3>1. CASE n = Len(picture) + 1
      <4>1. picture'[n] = << >> /\ Len(picture'[n]) = 0
        BY <1>2, <3>1
      <4> QED BY <1>1, <1>2, <3>1, <4>1
    <3>2. CASE n # Len(picture) + 1
      <4>1. n \in 1..Len(picture) /\ picture'[n] = picture[n]
        BY <1>1, <1>2, <3>2
      <4>2. /\ n < Len(picture) => Len(picture[n]) = rowBytes
            /\ \A i \in 1..Len(picture[n]) : picture[n][i] = EndOf(n - 1) + i
        BY <2>1, <4>1 DEF RInv, Decoded
      <4>3. n = Len(picture) => Len(picture[n]) = rowBytes
        <5>1. picture # << >>
          BY <1>1, <4>1
        <5> QED BY <2>1, <5>1 DEF LastIsWhole, Last
      <4>4. n < Len(picture) \/ n = Len(picture)
        BY <1>1, <4>1
      <4>5. Len(picture'[n]) = rowBytes
        BY <4>1, <4>2, <4>3, <4>4
      <4> QED BY <1>1, <4>1, <4>2, <4>5
    <3> QED BY <3>1, <3>2
  <2> QED BY <2>1, AloneFacts DEF Decoded
<1> QED BY <1>2, <1>3, <1>4, <1>5

(* The first scanline of a strip.                                          *)
LEMMA NextTilesKeepsInv ==
  ASSUME WInv, RInv, Alone, NextTiles
  PROVE  RInv'
<1>1. /\ rpc = "image" /\ Len(picture) < Height /\ rpc' = "strip"
      /\ stripEnd' = Min({Len(picture) + ReadStrip, Height})
      /\ picture' = Append(picture, << >>)
      /\ UNCHANGED <<rptr, rbuf, startOfFile, fetched, taken, skipLeft, eoi, rthrown, rdeleted>>
  BY DEF NextTiles
<1>2. putFailed # "finish" => LastIsWhole
  BY <1>1 DEF RInv, Decoded
<1>3. /\ picture' \in Seq(Seq(Nat)) /\ picture' # << >>
      /\ Len(picture') = Len(picture) + 1 /\ Len(picture') \in 0..Height
      /\ Last(picture') = << >> /\ Decoded'
  BY <1>1, <1>2, NewScanline
<1>4. stripEnd' \in 0..Height /\ Len(picture') <= stripEnd'
  <2>1. Len(picture) \in Nat /\ ReadStrip \in Nat /\ ReadStrip > 0 /\ Height \in Nat
    BY ReaderFacts, Sizes
  <2>2. stripEnd' = IF Len(picture) + ReadStrip <= Height THEN Len(picture) + ReadStrip
                                                          ELSE Height
    BY <1>1, <2>1, MinOfTwo
  <2> QED BY <1>1, <1>3, <2>1, <2>2
<1>5. ReaderTypes'
  BY <1>1, <1>3, <1>4, AloneFacts DEF RInv, ReaderTypes, RTypeOK
<1>6. ReaderAlive'
  BY <1>1 DEF RInv, ReaderAlive
<1>7. Fetched'
  BY <1>1, AloneFacts DEF RInv, Fetched, Reading, Position
<1>8. Taken'
  <2>1. Position' = Position
    BY <1>1 DEF Position
  <2>2. ASSUME putFailed # "finish"
        PROVE  Position' = EndOf(Len(picture') - 1) + Len(Last(picture'))
    <3>1. Len(picture) \in Nat /\ rowBytes \in Nat \ {0}
      BY ReaderFacts, WriterFacts
    <3>2. Len(picture') - 1 = Len(picture) /\ Len(Last(picture')) = 0
      BY <1>3, <3>1
    <3>3. EndOf(Len(picture)) \in Nat
      BY <3>1, EndFacts
    <3>4. Position = EndOf(Len(picture))
      BY <1>1, <2>2 DEF RInv, Taken
    <3> QED BY <2>1, <3>2, <3>3, <3>4
  <2> QED BY <1>1, <2>2, AloneFacts DEF RInv, Taken, Reading
<1> QED BY <1>3, <1>5, <1>6, <1>7, <1>8 DEF RInv

(* The end of a scanline, and of a strip.                                  *)
LEMMA ScanLineReadKeepsInv ==
  ASSUME WInv, RInv, Alone, ScanLineRead
  PROVE  RInv'
<1>1. /\ rpc = "strip"
      /\ eoi \/ Len(Last(picture)) = rowBytes
      /\ UNCHANGED <<rptr, rbuf, startOfFile, fetched, taken, skipLeft, eoi, stripEnd, rthrown,
                     rdeleted>>
  BY DEF ScanLineRead
<1>2. putFailed # "finish" => LastIsWhole
  BY <1>1 DEF RInv, Taken, Reading, LastIsWhole
<1>3. picture # << >> /\ Len(picture) <= stripEnd /\ Position' = Position
  <2>1. Position' = Position
    BY <1>1 DEF Position
  <2> QED BY <1>1, <2>1 DEF RInv, ReaderTypes
<1>4. putFailed # "finish" => Position = EndOf(Len(picture))
  <2>1. Len(picture) - 1 \in Nat /\ (Len(picture) - 1) + 1 = Len(picture)
    BY <1>3, ReaderFacts
  <2>2. EndOf(Len(picture)) = EndOf(Len(picture) - 1) + rowBytes
    BY <2>1, WriterFacts, EndFacts
  <2>3. ASSUME putFailed # "finish" PROVE Position = EndOf(Len(picture))
    <3>1. Position = EndOf(Len(picture) - 1) + Len(Last(picture))
      BY <1>1, <2>3 DEF RInv, Taken
    <3>2. Len(Last(picture)) = rowBytes
      BY <1>2, <1>3, <2>3 DEF LastIsWhole
    <3> QED BY <2>2, <3>1, <3>2
  <2> QED BY <2>3
<1>5. ReaderAlive'
  BY <1>1 DEF ScanLineRead, RInv, ReaderAlive
<1>6. Fetched'
  BY <1>1, AloneFacts DEF RInv, Fetched, Reading, Position
<1>7. CASE Len(picture) < stripEnd
  <2>1. picture' = Append(picture, << >>) /\ rpc' = "strip" /\ Len(picture) < Height
    BY <1>1, <1>7, ReaderFacts, Sizes DEF ScanLineRead
  <2>2. /\ picture' \in Seq(Seq(Nat)) /\ picture' # << >>
        /\ Len(picture') = Len(picture) + 1 /\ Len(picture') \in 0..Height
        /\ Last(picture') = << >> /\ Decoded'
    BY <1>1, <1>2, <2>1, NewScanline
  <2>3. ReaderTypes'
    <3>1. Len(picture') <= stripEnd
      BY <1>7, <2>2, ReaderFacts
    <3> QED BY <1>1, <2>1, <2>2, <3>1, AloneFacts DEF RInv, ReaderTypes, RTypeOK
  <2>4. Taken'
    <3>1. ASSUME putFailed # "finish"
          PROVE  Position' = EndOf(Len(picture') - 1) + Len(Last(picture'))
      <4>1. Len(picture) \in Nat /\ rowBytes \in Nat \ {0}
        BY ReaderFacts, WriterFacts
      <4>2. Len(picture') - 1 = Len(picture) /\ Len(Last(picture')) = 0
        BY <2>2, <4>1
      <4>3. EndOf(Len(picture)) \in Nat
        BY <4>1, EndFacts
      <4> QED BY <1>3, <1>4, <3>1, <4>2, <4>3
    <3> QED BY <1>1, <2>1, <3>1, AloneFacts DEF RInv, Taken, Reading
  <2> QED BY <1>5, <1>6, <2>2, <2>3, <2>4 DEF RInv
<1>8. CASE ~(Len(picture) < stripEnd)
  <2>1. picture' = picture /\ rpc' = "image"
    BY <1>1, <1>8 DEF ScanLineRead
  <2>2. ReaderTypes'
    BY <1>1, <2>1, AloneFacts DEF RInv, ReaderTypes, RTypeOK
  <2>3. Taken'
    BY <1>1, <1>3, <1>4, <2>1, AloneFacts DEF RInv, Taken, Reading
  <2>4. Decoded'
    BY <1>2, <2>1, AloneFacts DEF RInv, Decoded, LastIsWhole
  <2> QED BY <1>5, <1>6, <2>2, <2>3, <2>4 DEF RInv
<1> QED BY <1>7, <1>8

(* The next byte of the scanline, which is no marker before the image ends.*)
LEMMA TakeByteKeepsInv ==
  ASSUME WInv, RInv, Alone, TakeByte
  PROVE  RInv'
<1> DEFINE L == Len(picture)
           row == Append(picture[L], Head(rbuf))
<1>1. /\ rpc = "strip" /\ WantsByte /\ rbuf # << >> /\ rbuf' = Tail(rbuf)
      /\ UNCHANGED <<rpc, rptr, startOfFile, fetched, skipLeft, stripEnd, rthrown, rdeleted>>
  BY DEF TakeByte
<1>2. /\ rbuf' \in Seq(Nat) /\ Len(rbuf') \in 0..Max({ReadBuf, 2})
      /\ Head(rbuf) \in Nat /\ Position' = Position + 1
      /\ putFailed # "finish" =>
           /\ Head(rbuf) = Position + 1 /\ Len(rbuf') <= fetched'
           /\ \A i \in 1..Len(rbuf') : rbuf'[i] = Position' + i
  BY <1>1, TakingOne DEF Reading
<1>3. /\ picture \in Seq(Seq(Nat)) /\ picture # << >> /\ L \in Nat /\ L \in 1..L
      /\ L <= stripEnd /\ Last(picture) = picture[L] /\ picture[L] \in Seq(Nat)
      /\ rowBytes \in Nat /\ Len(picture[L]) \in Nat
  <2>1. picture \in Seq(Seq(Nat)) /\ picture # << >> /\ L <= stripEnd
    BY <1>1 DEF RInv, ReaderTypes
  <2>2. L \in Nat /\ L \in 1..L
    BY <2>1
  <2>3. Last(picture) = picture[L] /\ picture[L] \in Seq(Nat)
    BY <2>1, <2>2 DEF Last
  <2> QED BY <2>1, <2>2, <2>3, WriterFacts
<1>4. ReaderAlive'
  BY <1>1 DEF RInv, ReaderAlive
<1>5. Fetched'
  BY <1>1, <1>2, AloneFacts DEF Fetched, Reading
<1>6. CASE Head(rbuf) \in {FakeEOI, Encoded}
  <2>1. eoi' = TRUE /\ picture' = picture
    BY <1>6 DEF TakeByte
  <2>2. putFailed = "finish"
    <3>1. putFailed # "finish" => Position \in Nat /\ Position + 1 < Encoded
      BY <1>1, WantedIsInside
    <3> QED BY <1>2, <1>6, <3>1, WriterFacts DEF FakeEOI
  <2>3. ReaderTypes'
    BY <1>1, <1>2, <2>1, AloneFacts DEF RInv, ReaderTypes, RTypeOK
  <2>4. Taken' /\ Decoded'
    BY <2>2, AloneFacts DEF Taken, Decoded
  <2> QED BY <1>4, <1>5, <2>3, <2>4 DEF RInv
<1>7. CASE Head(rbuf) \notin {FakeEOI, Encoded}
  <2>1. eoi' = eoi /\ picture' = [picture EXCEPT ![L] = row]
    BY <1>7 DEF TakeByte
  <2>2. /\ row \in Seq(Nat) /\ Len(row) = Len(picture[L]) + 1
        /\ \A i \in 1..Len(picture[L]) : row[i] = picture[L][i]
        /\ row[Len(picture[L]) + 1] = Head(rbuf)
    BY <1>2, <1>3
  <2>3. /\ picture' \in Seq(Seq(Nat)) /\ Len(picture') = L /\ picture'[L] = row
        /\ \A n \in 1..L : n # L => picture'[n] = picture[n]
    <3> HIDE DEF row
    <3> QED BY <1>3, <2>1, <2>2
  <2> HIDE DEF row
  <2>4. picture' # << >> /\ Last(picture') = row
    BY <1>3, <2>3 DEF Last
  <2>5. ReaderTypes'
    <3>1. Len(picture') \in 0..Height /\ Len(picture') <= stripEnd
      BY <1>3, <2>3, ReaderFacts, Sizes
    <3> QED BY <1>1, <1>2, <2>1, <2>3, <2>4, <3>1, AloneFacts DEF RInv, ReaderTypes, RTypeOK
  <2>6. Taken'
    <3>1. ASSUME putFailed # "finish"
          PROVE  Position' = EndOf(Len(picture') - 1) + Len(Last(picture'))
      <4>1. Position = EndOf(L - 1) + Len(picture[L])
        BY <1>1, <1>3, <3>1 DEF RInv, Taken
      <4>2. EndOf(L - 1) \in Nat
        <5>1. L - 1 \in Nat
          BY <1>3
        <5> QED BY <5>1, WriterFacts, EndFacts
      <4>3. Len(Last(picture')) = Len(picture[L]) + 1 /\ Len(picture') = L
        BY <2>2, <2>3, <2>4
      <4>4. Position' = Position + 1 /\ Len(picture[L]) \in Nat
        BY <1>2, <1>3
      <4> HIDE DEF L
      <4> QED BY <4>1, <4>2, <4>3, <4>4
    <3> QED BY <1>1, <2>1, <3>1, AloneFacts DEF RInv, Taken, Reading
  <2>7. Decoded'
    <3>1. ASSUME putFailed # "finish", NEW n \in 1..Len(picture')
          PROVE  /\ Len(picture'[n]) <= rowBytes
                 /\ n < Len(picture') => Len(picture'[n]) = rowBytes
                 /\ \A i \in 1..Len(picture'[n]) : picture'[n][i] = EndOf(n - 1) + i
      <4>0. /\ Len(picture[n]) <= rowBytes
            /\ n < L => Len(picture[n]) = rowBytes
            /\ \A i \in 1..Len(picture[n]) : picture[n][i] = EndOf(n - 1) + i
        BY <2>3, <3>1 DEF RInv, Decoded
      <4>1. CASE n = L
        <5>1. Len(row) <= rowBytes
          <6>1. ~eoi
            BY <1>1, <3>1 DEF RInv, Taken, Reading
          <6>2. Len(picture[L]) < rowBytes
            BY <1>1, <1>3, <6>1 DEF WantsByte
          <6> QED BY <1>3, <2>2, <6>2
        <5>2. row[Len(picture[L]) + 1] = EndOf(L - 1) + (Len(picture[L]) + 1)
          <6>1. Position = EndOf(L - 1) + Len(picture[L])
            BY <1>1, <1>3, <3>1 DEF RInv, Taken
          <6>2. EndOf(L - 1) \in Nat
            <7>1. L - 1 \in Nat
              BY <1>3
            <7> QED BY <7>1, WriterFacts, EndFacts
          <6>3. Head(rbuf) = Position + 1
            BY <1>2, <3>1
          <6> QED BY <1>3, <2>2, <6>1, <6>2, <6>3
        <5>3. ASSUME NEW i \in 1..Len(row) PROVE row[i] = EndOf(L - 1) + i
          <6>1. i \in 1..Len(picture[L]) \/ i = Len(picture[L]) + 1
            BY <1>3, <2>2
          <6> QED BY <2>2, <4>0, <4>1, <5>2, <6>1
        <5> QED BY <2>3, <4>1, <5>1, <5>3
      <4>2. CASE n # L
        BY <2>3, <4>0, <4>2
      <4> QED BY <4>1, <4>2
    <3>2. rpc' = "strip"
      BY <1>1
    <3> QED BY <3>1, <3>2, AloneFacts DEF Decoded
  <2> QED BY <1>4, <1>5, <2>5, <2>6, <2>7 DEF RInv
<1> QED BY <1>6, <1>7

(* readImage() is left, early or not.                                      *)
LEMMA ImageReadKeepsInv ==
  ASSUME WInv, RInv, Alone, ImageRead
  PROVE  RInv'
<1>1. /\ rpc = "image" /\ rpc' = "disposing" /\ rthrown' = (Len(picture) < Height)
      /\ UNCHANGED <<rptr, rbuf, startOfFile, fetched, taken, skipLeft, eoi, picture, stripEnd,
                     rdeleted>>
  BY DEF ImageRead
<1>2. ReaderTypes'
  <2>1. rthrown' \in BOOLEAN
    BY <1>1
  <2> QED BY <1>1, <2>1, AloneFacts DEF RInv, ReaderTypes, RTypeOK
<1>3. ReaderAlive'
  BY <1>1 DEF RInv, ReaderAlive
<1>4. Fetched'
  BY <1>1 DEF Fetched, Reading
<1>5. Taken'
  BY <1>1, AloneFacts DEF RInv, Taken, Reading
<1>6. Decoded'
  BY <1>1, AloneFacts DEF RInv, Decoded, LastIsWhole
<1> QED BY <1>2, <1>3, <1>4, <1>5, <1>6 DEF RInv

(* dispose() reads on to the end only when each scanline was output.       *)
LEMMA DisposeReaderKeepsInv ==
  ASSUME WInv, RInv, Alone, DisposeReader
  PROVE  RInv'
<1>1. /\ rpc = "disposing" /\ rptr' = FALSE
      /\ UNCHANGED <<rbuf, startOfFile, fetched, taken, skipLeft, eoi, picture, stripEnd>>
  BY DEF DisposeReader
<1>2. CASE ScanLinesOutput < Height
  <2>1. rthrown' = TRUE /\ rpc' = "got" /\ rdeleted' = rdeleted + 1
    BY <1>2 DEF DisposeReader
  <2>2. ReaderTypes'
    <3>1. rdeleted' \in Nat
      <4>1. rdeleted \in Nat
        BY ReaderFacts
      <4> QED BY <2>1, <4>1
    <3> QED BY <1>1, <2>1, <3>1, AloneFacts DEF RInv, ReaderTypes, RTypeOK
  <2>3. ReaderAlive'
    BY <1>1, <2>1 DEF RInv, ReaderAlive
  <2>4. Fetched' /\ Taken'
    BY <1>1, <2>1 DEF Fetched, Taken, Reading
  <2>5. Decoded'
    BY <1>1, <2>1, AloneFacts DEF RInv, Decoded, LastIsWhole
  <2> QED BY <2>2, <2>3, <2>4, <2>5 DEF RInv
<1>3. CASE ~(ScanLinesOutput < Height)
  <2>1. rpc' = "finish" /\ rthrown' = rthrown /\ rdeleted' = rdeleted
    BY <1>3 DEF DisposeReader
  <2>2. ReaderTypes'
    BY <1>1, <2>1, AloneFacts DEF RInv, ReaderTypes, RTypeOK
  <2>3. ReaderAlive'
    BY <1>1, <2>1 DEF RInv, ReaderAlive
  <2>4. Fetched' /\ Taken'
    BY <1>1, <2>1 DEF Fetched, Taken, Reading
  <2>5. ASSUME putFailed # "finish" PROVE Len(picture) = Height /\ LastIsWhole
    <3>1. ~eoi
      BY <1>1, <2>5 DEF RInv, Taken
    <3>2. Len(picture) \in Nat /\ Len(picture) <= Height /\ Height \in Nat
      BY ReaderFacts, Sizes
    <3>3. ScanLinesOutput =
            IF picture = << >> \/ Len(Last(picture)) = rowBytes THEN Len(picture)
                                                                ELSE Len(picture) - 1
      BY <3>1 DEF ScanLinesOutput
    <3>4. picture = << >> \/ Len(Last(picture)) = rowBytes
      BY <1>3, <3>2, <3>3
    <3> QED BY <1>3, <3>2, <3>3, <3>4 DEF LastIsWhole
  <2>6. Decoded'
    BY <1>1, <2>1, <2>5, AloneFacts DEF RInv, Decoded, LastIsWhole
  <2> QED BY <2>2, <2>3, <2>4, <2>6 DEF RInv
<1> QED BY <1>2, <1>3

(* Nothing is decoded after the last scanline.                             *)
LEMMA TakeToEndKeepsInv ==
  ASSUME WInv, RInv, Alone, TakeToEnd
  PROVE  RInv'
<1>1. /\ rpc = "finish" /\ rbuf # << >> /\ rbuf' = Tail(rbuf)
      /\ eoi' = (Head(rbuf) \in {FakeEOI, Encoded})
      /\ UNCHANGED <<rpc, rptr, startOfFile, fetched, skipLeft, picture, stripEnd, rthrown,
                     rdeleted>>
  BY DEF TakeToEnd
<1>2. ReaderTypes'
  <2>1. rbuf' \in Seq(Nat) /\ Len(rbuf') \in 0..Max({ReadBuf, 2})
    BY <1>1, TakingOne
  <2>2. eoi' \in BOOLEAN
    BY <1>1
  <2> QED BY <1>1, <2>1, <2>2, AloneFacts DEF RInv, ReaderTypes, RTypeOK
<1>3. ReaderAlive'
  BY <1>1 DEF RInv, ReaderAlive
<1>4. Fetched' /\ Taken'
  BY <1>1 DEF Fetched, Taken, Reading
<1>5. Decoded'
  BY <1>1, AloneFacts DEF RInv, Decoded, LastIsWhole
<1> QED BY <1>2, <1>3, <1>4, <1>5 DEF RInv

(* The reader is deleted at the end of the image.                          *)
LEMMA ReaderFinishedKeepsInv ==
  ASSUME WInv, RInv, Alone, ReaderFinished
  PROVE  RInv'
<1>1. /\ rpc = "finish" /\ rpc' = "got" /\ rdeleted' = rdeleted + 1
      /\ UNCHANGED <<rptr, rbuf, startOfFile, fetched, taken, skipLeft, eoi, picture, stripEnd,
                     rthrown>>
  BY DEF ReaderFinished
<1>2. ReaderTypes'
  <2>1. rdeleted' \in Nat
    <3>1. rdeleted \in Nat
      BY ReaderFacts
    <3> QED BY <1>1, <3>1
  <2> QED BY <1>1, <2>1, AloneFacts DEF RInv, ReaderTypes, RTypeOK
<1>3. ReaderAlive'
  BY <1>1 DEF RInv, ReaderAlive
<1>4. Fetched' /\ Taken'
  BY <1>1 DEF Fetched, Taken, Reading
<1>5. Decoded'
  BY <1>1, AloneFacts DEF RInv, Decoded, LastIsWhole
<1> QED BY <1>2, <1>3, <1>4, <1>5 DEF RInv

(* close() finds no reader to delete.                                      *)
LEMMA CloseReaderKeepsInv ==
  ASSUME WInv, RInv, Alone, CloseReader
  PROVE  RInv'
<1>1. /\ rpc = "got" /\ rpc' = "closed" /\ rptr' = FALSE /\ rdeleted' = rdeleted
      /\ UNCHANGED <<rbuf, startOfFile, fetched, taken, skipLeft, eoi, picture, stripEnd,
                     rthrown>>
  BY DEF CloseReader, RInv, ReaderAlive
<1>2. ReaderTypes'
  BY <1>1, AloneFacts DEF RInv, ReaderTypes, RTypeOK
<1>3. ReaderAlive'
  BY <1>1 DEF RInv, ReaderAlive
<1>4. Fetched' /\ Taken'
  BY <1>1 DEF Fetched, Taken, Reading
<1>5. Decoded'
  BY <1>1, AloneFacts DEF RInv, Decoded, LastIsWhole
<1> QED BY <1>2, <1>3, <1>4, <1>5 DEF RInv

(* A step of the reader, whichever.                                        *)
LEMMA ReaderStep ==
  ASSUME WInv, RInv, wpc = "closed", ~wthrown, RNext, UNCHANGED wvars
  PROVE  RInv'
<1>1. Alone
  BY DEF RNext, Alone
<1> QED BY <1>1, BeginReadKeepsInv, RefillKeepsInv, TakeHeaderKeepsInv, SkipBufferKeepsInv,
           SkipRestKeepsInv, TakeTablesKeepsInv, NextTilesKeepsInv, TakeByteKeepsInv,
           ScanLineReadKeepsInv, ImageReadKeepsInv, DisposeReaderKeepsInv, TakeToEndKeepsInv,
           ReaderFinishedKeepsInv, CloseReaderKeepsInv DEF RNext

-----------------------------------------------------------------------------
(* Both together.                                                          *)

(* While the file is written the reader is where it began.                 *)
LEMMA WriterLeavesReader ==
  ASSUME Inv, WriteCache
  PROVE  Inv'
<1>1. /\ WNext /\ UNCHANGED rvars
      /\ entry' = IF wpc' # "closed" THEN "open" ELSE IF wthrown THEN "none" ELSE "present"
  BY DEF WriteCache
<1>2. /\ WInv' /\ rowBytes' = rowBytes /\ wpc # "closed" /\ Len(file) <= Len(file')
      /\ putFailed' # "finish" => putFailed # "finish"
  BY <1>1, WriterStep DEF Inv
<1>3. rpc = "new"
  BY <1>2 DEF Inv, ReadAfterWrite
<1>4. /\ UNCHANGED <<rpc, rptr, rbuf, startOfFile, fetched, taken, skipLeft, eoi, picture,
                     stripEnd, rthrown, rdeleted>>
  BY <1>1 DEF rvars
<1>5. \A n : EndOf(n)' = EndOf(n)
  BY <1>2, PlacesStay
<1>6. fetched' \in 0..Len(file')
  <2>1. fetched \in Nat /\ fetched <= Len(file) /\ Len(file) \in Nat
    BY ReaderFacts, WriterFacts DEF Inv
  <2>2. Len(file') \in Nat
    <3>1. file' \in Seq(Nat)
      BY <1>2 DEF WInv, WriterTypes
    <3> QED BY <3>1
  <2> QED BY <1>2, <1>4, <2>1, <2>2
<1>7. RInv'
  <2>1. ReaderTypes'
    BY <1>2, <1>4, <1>6 DEF Inv, RInv, ReaderTypes, RTypeOK
  <2>2. ReaderAlive'
    BY <1>4 DEF Inv, RInv, ReaderAlive
  <2>3. Fetched'
    BY <1>2, <1>3, <1>4 DEF Inv, RInv, Fetched, Position, Reading
  <2>4. Taken'
    BY <1>2, <1>3, <1>4 DEF Inv, RInv, Taken, Position, Reading
  <2>5. Decoded'
    BY <1>2, <1>3, <1>4, <1>5 DEF Inv, RInv, Decoded, LastIsWhole
  <2> QED BY <2>1, <2>2, <2>3, <2>4, <2>5 DEF RInv
<1>8. ReadAfterWrite'
  <2>1. rpc' = "new"
    BY <1>3, <1>4
  <2>2. wthrown' = wthrown \/ wpc' # "closed"
    BY <1>1, <1>2 DEF WNext, BeginWrite, NextStrip, Emit, EmptyOutputBuffer, WriteCallFails,
                      StripWritten, LeaveImage, DisposeWriter, TermDestination, CloseWriter
  <2> QED BY <1>1, <2>1, <2>2 DEF ReadAfterWrite
<1> QED BY <1>1, <1>2, <1>7, <1>8 DEF Inv

(* While the file is read the writer is where it ended.                    *)
LEMMA ReaderLeavesWriter ==
  ASSUME Inv, ReadCache
  PROVE  Inv'
<1>1. /\ entry = "present" /\ RNext /\ UNCHANGED wvars
      /\ entry' = IF rpc' = "closed" /\ rthrown THEN "none" ELSE entry
  BY DEF ReadCache
<1>2. wpc = "closed" /\ ~wthrown
  BY <1>1 DEF Inv, ReadAfterWrite
<1>3. RInv'
  BY <1>1, <1>2, ReaderStep DEF Inv
<1>4. UNCHANGED <<rowBytes, file, wpc, wptr, wbuf, free, emitted, todo, written, wthrown,
                  wdeleted, putFailed>>
  BY <1>1 DEF RNext, wvars
<1>5. Encoded' = Encoded /\ \A n : EndOf(n)' = EndOf(n)
  BY <1>4, PlacesStay
<1>6. WInv'
  <2>1. WriterTypes'
    BY <1>4, <1>5 DEF Inv, WInv, WriterTypes, WTypeOK
  <2>2. WriterAlive' /\ PutFailures'
    BY <1>4 DEF Inv, WInv, WriterAlive, PutFailures
  <2>3. Made'
    BY <1>4, <1>5 DEF Inv, WInv, Made
  <2>4. Received'
    BY <1>4 DEF Inv, WInv, Received
  <2> QED BY <2>1, <2>2, <2>3, <2>4 DEF WInv
<1>7. ReadAfterWrite'
  BY <1>2, <1>4 DEF ReadAfterWrite
<1> QED BY <1>1, <1>3, <1>6, <1>7 DEF Inv

(* A step of neither.                                                      *)
LEMMA StutterKeepsInv ==
  ASSUME Inv, UNCHANGED vars
  PROVE  Inv'
<1>1. /\ UNCHANGED <<rowBytes, file, entry, wpc, wptr, wbuf, free, emitted, todo, written,
                     wthrown, wdeleted, putFailed, rpc, rptr, rbuf, startOfFile, fetched, taken,
                     skipLeft, eoi, picture, stripEnd, rthrown, rdeleted>>
  BY DEF vars, wvars, rvars
<1>2. Encoded' = Encoded /\ \A n : EndOf(n)' = EndOf(n)
  BY <1>1, PlacesStay
<1>3. WriterTypes' /\ WriterAlive' /\ PutFailures'
  BY <1>1, <1>2 DEF Inv, WInv, WriterTypes, WTypeOK, WriterAlive, PutFailures
<1>4. Made'
  BY <1>1, <1>2 DEF Inv, WInv, Made
<1>5. Received'
  BY <1>1 DEF Inv, WInv, Received
<1>6. ReaderTypes' /\ ReaderAlive'
  BY <1>1 DEF Inv, RInv, ReaderTypes, RTypeOK, ReaderAlive
<1>7. Fetched'
  BY <1>1 DEF Inv, RInv, Fetched, Position
<1>8. Taken'
  BY <1>1, <1>2 DEF Inv, RInv, Taken, Position
<1>9. Decoded'
  BY <1>1, <1>2 DEF Inv, RInv, Decoded, LastIsWhole
<1>10. ReadAfterWrite'
  BY <1>1 DEF Inv, ReadAfterWrite
<1> QED BY <1>1, <1>3, <1>4, <1>5, <1>6, <1>7, <1>8, <1>9, <1>10 DEF Inv, WInv, RInv

(* Nothing is written, nothing is read.                                    *)
LEMMA InitInv ==
  ASSUME Init
  PROVE  Inv
<1>1. rowBytes \in Nat \ {0} /\ file = << >> /\ entry = "none"
  BY Sizes DEF Init
<1>2. Encoded \in Nat
  BY <1>1, EndFacts
<1>3. WInv
  <2>1. WriterTypes
    <3>1. /\ wbuf = [i \in 1..WriteBuf |-> 0] /\ free = 0 /\ emitted = 0 /\ todo = 0
          /\ written = 0 /\ wdeleted = 0
      BY DEF Init, WInit
    <3> HIDE DEF Encoded
    <3>2. wbuf \in [1..WriteBuf -> 0..Encoded]
      BY <1>2, <3>1
    <3>3. /\ free \in 0..WriteBuf /\ emitted \in 0..Encoded /\ todo \in 0..Encoded
          /\ written \in 0..Height /\ wdeleted \in Nat
      BY <1>2, <3>1, Sizes
    <3>4. file \in Seq(Nat) /\ \A i \in 1..Len(file) : file[i] \in 0..Encoded
      BY <1>1
    <3>5. wptr \in BOOLEAN /\ wthrown \in BOOLEAN /\ wpc = "new" /\ putFailed = "no"
      BY DEF Init, WInit
    <3> QED BY <1>1, <3>2, <3>3, <3>4, <3>5 DEF WriterTypes, WTypeOK
  <2>2. WriterAlive /\ PutFailures
    BY DEF Init, WInit, WriterAlive, PutFailures
  <2>3. Made
    BY <1>2 DEF Init, WInit, Made
  <2>4. Received
    BY <1>1 DEF Init, WInit, Received
  <2> QED BY <2>1, <2>2, <2>3, <2>4 DEF WInv
<1>4. RInv
  <2>1. Max({ReadBuf, 2}) \in Nat
    BY Sizes, MaxOfTwo
  <2>0. /\ rpc = "new" /\ rbuf = << >> /\ fetched = 0 /\ skipLeft = 0 /\ picture = << >>
        /\ stripEnd = 0 /\ rdeleted = 0
        /\ rptr = FALSE /\ startOfFile = FALSE /\ eoi = FALSE /\ rthrown = FALSE
    BY DEF Init, RInit
  <2>2. ReaderTypes
    <3> HIDE DEF Max
    <3>1. rbuf \in Seq(Nat) /\ picture \in Seq(Seq(Nat)) /\ Len(rbuf) = 0 /\ Len(picture) = 0
          /\ Len(file) = 0
      BY <1>1, <2>0
    <3>2. Len(rbuf) \in 0..Max({ReadBuf, 2}) /\ fetched \in 0..Len(file)
      BY <2>0, <2>1, <3>1
    <3>3. skipLeft \in 0..HeaderBytes /\ Len(picture) \in 0..Height /\ stripEnd \in 0..Height
      BY <2>0, <3>1, Sizes
    <3> QED BY <2>0, <3>1, <3>2, <3>3 DEF ReaderTypes, RTypeOK
  <2>3. ReaderAlive
    BY DEF Init, RInit, ReaderAlive
  <2>4. Fetched
    BY <2>0 DEF Fetched, Reading
  <2>5. Taken
    <3>1. Len(rbuf) = 0 /\ fetched = 0
      BY <2>0
    <3>2. Position = 0
      BY <3>1 DEF Position
    <3> QED BY <2>0, <3>2 DEF Taken
  <2>6. Decoded
    BY <2>0 DEF Decoded
  <2> QED BY <2>2, <2>3, <2>4, <2>5, <2>6 DEF RInv
<1> QED BY <1>1, <1>3, <1>4 DEF Inv, ReadAfterWrite, Init, RInit

(* Every state that writeCache() and readCache() reach is one of Inv.      *)
THEOREM Invariant == Spec => []Inv
<1>1. Init => Inv
  BY InitInv
<1>2. Inv /\ [Next]_vars => Inv'
  BY WriterLeavesReader, ReaderLeavesWriter, StutterKeepsInv DEF Next
<1> QED BY <1>1, <1>2, PTL DEF Spec

(* Buffers, counters and pictures stay within their bounds.                *)
THEOREM TypeCorrect == Spec => []TypeOK
<1>1. Inv => TypeOK
  BY DEF Inv, WInv, WriterTypes, RInv, ReaderTypes, TypeOK
<1> QED BY <1>1, Invariant, PTL

(* ReaderAlive and WriterAlive count the deletions.                        *)
LEMMA EachDeletedOnce ==
  ASSUME Inv
  PROVE  DeletedOnce
BY DEF Inv, WInv, RInv, WriterAlive, ReaderAlive, DeletedOnce

(* Whatever fails, dispose() and close() together delete each native object*)
(* once, and leave no pointer to it.                                       *)
THEOREM NativeObjectsDeletedOnce == Spec => []DeletedOnce
<1>1. Inv => DeletedOnce
  BY EachDeletedOnce
<1> QED BY <1>1, Invariant, PTL

(* A sequence of consecutive bytes, by its bytes.                          *)
LEMMA BytesAre ==
  ASSUME NEW a \in Nat, NEW n \in Nat, NEW s \in Seq(Nat), Len(s) = n,
         \A i \in 1..n : s[i] = a + i
  PROVE  s = BytesOf(a + 1, a + n)
<1>1. BytesOf(a + 1, a + n) = [i \in 1..n |-> a + i]
  <2>1. (a + n) + 1 - (a + 1) = n
    OBVIOUS
  <2>2. \A i \in 1..n : (a + 1) + i - 1 = a + i
    OBVIOUS
  <2> QED BY <2>1, <2>2 DEF BytesOf
<1>2. s = [i \in 1..n |-> s[i]]
  BY LenProperties
<1> QED BY <1>1, <1>2

(* Received says of each byte what WrittenInOrder says of all.             *)
LEMMA InOrderFollows ==
  ASSUME WInv
  PROVE  WrittenInOrder
<1> SUFFICES ASSUME putFailed = "no", wpc # "new" PROVE WrittenInOrder
  BY DEF WrittenInOrder
<1>1. /\ file \in Seq(Nat) /\ Len(file) \in Nat /\ emitted \in Nat
      /\ \A i \in 1..Len(file) : file[i] = i
  BY WriterFacts DEF WInv, Received
<1>2. BytesOf(1, emitted) = [i \in 1..emitted |-> i]
  <2>1. emitted + 1 - 1 = emitted /\ \A i \in 1..emitted : 1 + i - 1 = i
    BY <1>1
  <2> QED BY <2>1 DEF BytesOf
<1>3. /\ BytesOf(1, emitted) \in Seq(Nat) /\ Len(BytesOf(1, emitted)) = emitted
      /\ \A i \in 1..emitted : BytesOf(1, emitted)[i] = i
  BY <1>1, <1>2
<1> HIDE DEF BytesOf
<1>4. CASE wpc \in {"put", "closed"}
  <2>1. Len(file) <= emitted /\ (wthrown \/ Len(file) = emitted)
    BY <1>4 DEF WInv, Received
  <2>2. wthrown \/ emitted = Encoded
    BY <1>4 DEF WInv, Made
  <2>3. SubSeq(file, 1, Len(file)) = SubSeq(BytesOf(1, emitted), 1, Len(file))
    <3>1. /\ SubSeq(file, 1, Len(file)) \in Seq(Nat)
          /\ Len(SubSeq(file, 1, Len(file))) = Len(file)
          /\ \A i \in 1..Len(file) : SubSeq(file, 1, Len(file))[i] = i
      BY <1>1
    <3>2. /\ SubSeq(BytesOf(1, emitted), 1, Len(file)) \in Seq(Nat)
          /\ Len(SubSeq(BytesOf(1, emitted), 1, Len(file))) = Len(file)
          /\ \A i \in 1..Len(file) : SubSeq(BytesOf(1, emitted), 1, Len(file))[i] = i
      BY <1>1, <1>3, <2>1
    <3> QED BY <3>1, <3>2, SeqEqual
  <2>4. IsPrefix(file, BytesOf(1, emitted))
    BY <1>3, <2>1, <2>3 DEF IsPrefix
  <2> QED BY <1>4, <2>1, <2>2, <2>4 DEF WrittenInOrder
<1>5. CASE wpc \notin {"put", "closed"}
  <2> DEFINE n == WriteBuf - free
             held == SubSeq(wbuf, 1, n)
  <2>1. wpc \in {"image", "strip", "disposing", "finish"}
    BY <1>5, WriterFacts
  <2>2. Len(file) + n = emitted /\ \A i \in 1..n : wbuf[i] = Len(file) + i
    BY <2>1 DEF WInv, Received
  <2>3. n \in Nat /\ n <= WriteBuf /\ WriteBuf \in Nat
    BY WriterFacts, Sizes
  <2>4. wbuf \in Seq(Nat) /\ Len(wbuf) = WriteBuf
    BY <2>3, WriterFacts
  <2> HIDE DEF n
  <2>5. held \in Seq(Nat) /\ Len(held) = n /\ \A i \in 1..n : held[i] = Len(file) + i
    BY <2>2, <2>3, <2>4
  <2> HIDE DEF held
  <2>6. /\ file \o held \in Seq(Nat) /\ Len(file \o held) = emitted
        /\ \A i \in 1..Len(file) : (file \o held)[i] = file[i]
        /\ \A i \in 1..n : (file \o held)[Len(file) + i] = held[i]
    <3>1. /\ file \o held \in Seq(Nat) /\ Len(file \o held) = Len(file) + n
          /\ \A i \in 1..(Len(file) + n) :
               (file \o held)[i] = IF i <= Len(file) THEN file[i] ELSE held[i - Len(file)]
      BY <1>1, <2>5, ConcatProperties
    <3>2. ASSUME NEW i \in 1..Len(file) PROVE (file \o held)[i] = file[i]
      <4>1. i \in 1..(Len(file) + n) /\ i <= Len(file)
        BY <1>1, <2>3
      <4> QED BY <3>1, <4>1
    <3>3. ASSUME NEW i \in 1..n PROVE (file \o held)[Len(file) + i] = held[i]
      <4>1. /\ Len(file) + i \in 1..(Len(file) + n) /\ ~(Len(file) + i <= Len(file))
            /\ (Len(file) + i) - Len(file) = i
        BY <1>1, <2>3
      <4> QED BY <3>1, <4>1
    <3> QED BY <2>2, <3>1, <3>2, <3>3
  <2>7. ASSUME NEW i \in 1..emitted PROVE (file \o held)[i] = i
    <3>1. CASE i \in 1..Len(file)
      BY <1>1, <2>6, <3>1
    <3>2. CASE i \notin 1..Len(file)
      <4>1. i - Len(file) \in 1..n /\ Len(file) + (i - Len(file)) = i
        BY <1>1, <2>2, <2>3, <3>2
      <4> QED BY <2>5, <2>6, <4>1
    <3> QED BY <3>1, <3>2
  <2>8. file \o held = BytesOf(1, emitted)
    BY <1>3, <2>6, <2>7, SeqEqual
  <2> QED BY <1>5, <2>8 DEF WrittenInOrder, held, n
<1> QED BY <1>4, <1>5

(* Decoded says of each byte what PreviewIsWhole says of all.              *)
LEMMA WholeFollows ==
  ASSUME Inv
  PROVE  PreviewIsWhole
<1> SUFFICES ASSUME rpc = "closed", ~rthrown, putFailed # "finish"
             PROVE  picture = [n \in 1..Height |-> BytesOf(EndOf(n - 1) + 1, EndOf(n))]
  BY DEF PreviewIsWhole
<1>1. /\ Len(picture) = Height /\ LastIsWhole
      /\ \A n \in 1..Len(picture) :
           /\ n < Len(picture) => Len(picture[n]) = rowBytes
           /\ \A i \in 1..Len(picture[n]) : picture[n][i] = EndOf(n - 1) + i
  BY DEF Inv, RInv, Decoded
<1>2. picture \in Seq(Seq(Nat)) /\ Height \in Nat /\ Height > 0 /\ rowBytes \in Nat \ {0}
  BY ReaderFacts, WriterFacts, Sizes DEF Inv
<1>3. ASSUME NEW n \in 1..Height
      PROVE  picture[n] = BytesOf(EndOf(n - 1) + 1, EndOf(n))
  <2>1. picture[n] \in Seq(Nat)
    BY <1>1, <1>2
  <2>2. Len(picture[n]) = rowBytes
    <3>1. CASE n < Height
      BY <1>1, <3>1
    <3>2. CASE n = Height
      <4>1. picture # << >> /\ Last(picture) = picture[n]
        BY <1>1, <1>2, <3>2 DEF Last
      <4> QED BY <1>1, <4>1 DEF LastIsWhole
    <3> QED BY <1>2, <3>1, <3>2
  <2>3. EndOf(n - 1) \in Nat /\ EndOf(n) = EndOf(n - 1) + rowBytes
    <3>1. n - 1 \in Nat /\ (n - 1) + 1 = n
      BY <1>2
    <3> QED BY <1>2, <3>1, EndFacts
  <2>4. \A i \in 1..rowBytes : picture[n][i] = EndOf(n - 1) + i
    BY <1>1, <2>2
  <2> HIDE DEF EndOf
  <2> QED BY <1>2, <2>1, <2>2, <2>3, <2>4, BytesAre
<1>4. picture = [n \in 1..Height |-> picture[n]]
  BY <1>1, <1>2, LenProperties
<1> QED BY <1>3, <1>4

(* For buffers, strips and images of any size, the receiver gets the bytes *)
(* of the compressor in order, whole when nothing fails, else a beginning  *)
(* of them.                                                                *)
THEOREM BytesWrittenInOrder == Spec => []WrittenInOrder
<1>1. Inv => WrittenInOrder
  BY InOrderFollows DEF Inv
<1> QED BY <1>1, Invariant, PTL

(* For buffers, strips, images of any size and whatever pieces the provider*)
(* gets, a preview that is read without an exception is made of its own    *)
(* bytes, unless the last put failed.                                      *)
THEOREM PreviewsAreWhole == Spec => []PreviewIsWhole
<1>1. Inv => PreviewIsWhole
  BY WholeFollows
<1> QED BY <1>1, Invariant, PTL
-----------------------------------------------------------------------------
(* What the decoder takes, of any file: also of one whose last put failed. *)

(* Taken and buffered bytes together are those of the file that were       *)
(* fetched, and then markers if that were all.                             *)
StreamInv ==
  /\ taken \in Seq(Nat)
  /\ rpc = "new" => taken = << >> /\ rbuf = << >> /\ fetched = 0
  /\ fetched <= Len(taken) + Len(rbuf)
  /\ fetched < Len(file) => fetched = Len(taken) + Len(rbuf)
  /\ TakenInOrder
  /\ \A i \in 1..Len(rbuf) : rbuf[i] = ByteAt(Len(taken) + i)

LEMMA StreamFacts ==
  ASSUME Inv, StreamInv
  PROVE  /\ file \in Seq(Nat) /\ rbuf \in Seq(Nat) /\ taken \in Seq(Nat)
         /\ Len(file) \in Nat /\ Len(rbuf) \in Nat /\ Len(taken) \in Nat
         /\ fetched \in Nat /\ fetched <= Len(file) /\ skipLeft \in Nat
BY ReaderFacts, WriterFacts DEF Inv, StreamInv, RInv, ReaderTypes, RTypeOK

(* A step that takes the first n bytes of the buffer.                      *)
LEMMA TakingKeepsStream ==
  ASSUME Inv, StreamInv, rpc' # "new", UNCHANGED <<file, fetched>>,
         NEW n \in 0..Len(rbuf),
         taken' \in Seq(Nat), Len(taken') = Len(taken) + n,
         \A i \in 1..Len(taken) : taken'[i] = taken[i],
         \A i \in 1..n : taken'[Len(taken) + i] = rbuf[i],
         Len(rbuf') = Len(rbuf) - n,
         \A i \in 1..(Len(rbuf) - n) : rbuf'[i] = rbuf[n + i]
  PROVE  StreamInv'
<1>1. Len(rbuf) \in Nat /\ Len(taken) \in Nat /\ n \in Nat /\ n <= Len(rbuf)
  BY StreamFacts
<1>2. \A i : ByteAt(i)' = ByteAt(i)
  BY DEF ByteAt
<1>3. Len(taken') + Len(rbuf') = Len(taken) + Len(rbuf)
  BY <1>1
<1>4. TakenInOrder'
  <2> SUFFICES ASSUME NEW i \in 1..Len(taken') PROVE taken'[i] = ByteAt(i)
    BY <1>2 DEF TakenInOrder
  <2>0. i \in 1..(Len(taken) + n)
    OBVIOUS
  <2>1. CASE i <= Len(taken)
    <3>1. i \in 1..Len(taken)
      BY <1>1, <2>0, <2>1
    <3> QED BY <3>1 DEF StreamInv, TakenInOrder
  <2>2. CASE i > Len(taken)
    <3>1. PICK j \in 1..n : i = Len(taken) + j
      <4>1. i - Len(taken) \in 1..n /\ Len(taken) + (i - Len(taken)) = i
        BY <1>1, <2>0, <2>2
      <4> QED BY <4>1
    <3>2. j \in 1..Len(rbuf)
      BY <1>1
    <3> QED BY <3>1, <3>2 DEF StreamInv
  <2> QED BY <1>1, <2>0, <2>1, <2>2
<1>5. \A i \in 1..Len(rbuf') : rbuf'[i] = ByteAt(Len(taken') + i)
  <2> SUFFICES ASSUME NEW i \in 1..(Len(rbuf) - n) PROVE rbuf'[i] = ByteAt(Len(taken') + i)
    OBVIOUS
  <2>1. /\ n + i \in 1..Len(rbuf) /\ Len(taken') + i = Len(taken) + (n + i)
        /\ rbuf'[i] = rbuf[n + i]
    BY <1>1
  <2> QED BY <2>1 DEF StreamInv
<1> QED BY <1>2, <1>3, <1>4, <1>5 DEF StreamInv

(* The first byte of the buffer.                                           *)
LEMMA HeadKeepsStream ==
  ASSUME Inv, StreamInv, rpc' # "new", UNCHANGED <<file, fetched>>, rbuf # << >>,
         taken' = Append(taken, Head(rbuf)), rbuf' = Tail(rbuf)
  PROVE  StreamInv'
<1>1. /\ rbuf \in Seq(Nat) /\ taken \in Seq(Nat) /\ Len(rbuf) \in Nat
      /\ Len(taken) \in Nat /\ Len(rbuf) >= 1
  BY StreamFacts
<1>2. Head(rbuf) \in Nat /\ Head(rbuf) = rbuf[1] /\ 1 \in 0..Len(rbuf)
  BY <1>1
<1>3. /\ taken' \in Seq(Nat) /\ Len(taken') = Len(taken) + 1
      /\ \A i \in 1..Len(taken) : taken'[i] = taken[i]
      /\ taken'[Len(taken) + 1] = Head(rbuf)
  BY <1>1, <1>2
<1>4. /\ Len(rbuf') = Len(rbuf) - 1
      /\ \A i \in 1..(Len(rbuf) - 1) : rbuf'[i] = rbuf[1 + i]
  BY <1>1
<1>5. \A i \in 1..1 : taken'[Len(taken) + i] = rbuf[i]
  BY <1>2, <1>3
<1> QED BY <1>2, <1>3, <1>4, <1>5, TakingKeepsStream

(* The buffer is taken whole and filled, or the call fails.                *)
LEMMA FillingKeepsStream ==
  ASSUME Inv, StreamInv, rpc # "new", UNCHANGED file, NEW left, FillInputBuffer(left)
  PROVE  StreamInv'
<1>1. /\ rbuf \in Seq(Nat) /\ taken \in Seq(Nat) /\ file \in Seq(Nat)
      /\ Len(rbuf) \in Nat /\ Len(taken) \in Nat /\ Len(file) \in Nat
      /\ fetched \in Nat /\ fetched <= Len(file)
      /\ ReadBuf \in Nat /\ ReadBuf > 0
  BY StreamFacts, Sizes
<1>2. \A i : ByteAt(i)' = ByteAt(i)
  BY DEF ByteAt
<1>3. CASE ReadCallFails
  <2>1. rpc' # "new" /\ UNCHANGED <<rbuf, fetched, taken>>
    BY <1>3 DEF ReadCallFails
  <2> QED BY <1>2, <2>1 DEF StreamInv, TakenInOrder
<1>4. CASE /\ taken' = taken \o rbuf /\ UNCHANGED rpc
           /\ \/ /\ fetched < Len(file)
                 /\ \E k \in 1..Min({ReadBuf, Len(file) - fetched}) :
                      rbuf' = SubSeq(file, fetched + 1, fetched + k) /\ fetched' = fetched + k
              \/ /\ fetched = Len(file)
                 /\ rbuf' = <<FakeEOI, FakeEOI>> /\ UNCHANGED fetched
  <2>1. /\ taken' \in Seq(Nat) /\ Len(taken') = Len(taken) + Len(rbuf)
        /\ \A i \in 1..Len(taken) : taken'[i] = taken[i]
        /\ \A i \in 1..Len(rbuf) : taken'[Len(taken) + i] = rbuf[i]
    BY <1>1, <1>4
  <2>2. TakenInOrder'
    <3> SUFFICES ASSUME NEW i \in 1..Len(taken') PROVE taken'[i] = ByteAt(i)
      BY <1>2 DEF TakenInOrder
    <3>0. i \in 1..(Len(taken) + Len(rbuf))
      BY <2>1
    <3>1. CASE i <= Len(taken)
      <4>1. i \in 1..Len(taken)
        BY <1>1, <3>0, <3>1
      <4> QED BY <2>1, <4>1 DEF StreamInv, TakenInOrder
    <3>2. CASE i > Len(taken)
      <4>1. PICK j \in 1..Len(rbuf) : i = Len(taken) + j
        <5>1. i - Len(taken) \in 1..Len(rbuf) /\ Len(taken) + (i - Len(taken)) = i
          BY <1>1, <3>0, <3>2
        <5> QED BY <5>1
      <4> QED BY <2>1, <4>1 DEF StreamInv
    <3> QED BY <1>1, <3>0, <3>1, <3>2
  <2>3. fetched <= Len(taken') /\ (fetched < Len(file) => fetched = Len(taken'))
    BY <2>1 DEF StreamInv
  <2>4. CASE /\ fetched < Len(file)
             /\ \E k \in 1..Min({ReadBuf, Len(file) - fetched}) :
                  rbuf' = SubSeq(file, fetched + 1, fetched + k) /\ fetched' = fetched + k
    <3>1. Min({ReadBuf, Len(file) - fetched}) =
            IF ReadBuf <= Len(file) - fetched THEN ReadBuf ELSE Len(file) - fetched
      <4>1. ReadBuf \in Int /\ Len(file) - fetched \in Int
        BY <1>1
      <4> QED BY <4>1, MinOfTwo
    <3>2. PICK k \in 1..Min({ReadBuf, Len(file) - fetched}) :
            rbuf' = SubSeq(file, fetched + 1, fetched + k) /\ fetched' = fetched + k
      BY <2>4
    <3>3. k \in Nat /\ fetched + k <= Len(file)
      BY <1>1, <3>1
    <3>4. Len(rbuf') = k /\ \A i \in 1..k : rbuf'[i] = file[fetched + i]
      <4>1. \A i \in (fetched + 1)..(fetched + k) : file[i] \in Nat
        <5> TAKE i \in (fetched + 1)..(fetched + k)
        <5>1. i \in 1..Len(file)
          BY <1>1, <3>3
        <5> QED BY <1>1, <5>1, ElementOfSeq
      <4>2. /\ Len(SubSeq(file, fetched + 1, fetched + k)) = k
            /\ \A i \in 1..k : SubSeq(file, fetched + 1, fetched + k)[i] = file[fetched + i]
        BY <1>1, <3>3, <4>1
      <4> QED BY <3>2, <4>2
    <3>5. \A i \in 1..Len(rbuf') : rbuf'[i] = ByteAt(Len(taken') + i)
      BY <1>1, <2>3, <2>4, <3>3, <3>4 DEF ByteAt
    <3>6. fetched' = Len(taken') + Len(rbuf')
      BY <2>3, <2>4, <3>2, <3>4
    <3> QED BY <1>2, <1>4, <2>1, <2>2, <3>5, <3>6 DEF StreamInv
  <2>5. CASE fetched = Len(file) /\ rbuf' = <<FakeEOI, FakeEOI>> /\ UNCHANGED fetched
    <3>1. Len(rbuf') = 2 /\ \A i \in 1..2 : rbuf'[i] = FakeEOI
      BY <2>5
    <3>2. \A i \in 1..2 : ByteAt(Len(taken') + i) = FakeEOI
      BY <1>1, <2>1, <2>3, <2>5 DEF ByteAt
    <3>3. fetched' <= Len(taken') + Len(rbuf') /\ ~(fetched' < Len(file))
      BY <1>1, <2>1, <2>3, <2>5, <3>1
    <3> QED BY <1>2, <1>4, <2>1, <2>2, <3>1, <3>2, <3>3 DEF StreamInv
  <2> QED BY <1>4, <2>4, <2>5
<1> QED BY <1>3, <1>4 DEF FillInputBuffer

(* The rest of a skip.                                                     *)
LEMMA SkipRestKeepsStream ==
  ASSUME Inv, StreamInv, SkipRest, UNCHANGED file
  PROVE  StreamInv'
<1>1. /\ skipLeft <= Len(rbuf) /\ taken' = taken \o SubSeq(rbuf, 1, skipLeft)
      /\ rbuf' = SubSeq(rbuf, skipLeft + 1, Len(rbuf))
      /\ rpc' = "tables" /\ UNCHANGED fetched
  BY DEF SkipRest
<1>2. /\ rbuf \in Seq(Nat) /\ taken \in Seq(Nat) /\ Len(rbuf) \in Nat
      /\ Len(taken) \in Nat /\ skipLeft \in Nat
  BY StreamFacts
<1> DEFINE n == skipLeft
           skipped == SubSeq(rbuf, 1, n)
<1>3. \A i \in 1..Len(rbuf) : rbuf[i] \in Nat
  BY <1>2
<1>4. skipped \in Seq(Nat) /\ Len(skipped) = n /\ \A i \in 1..n : skipped[i] = rbuf[i]
  BY <1>1, <1>2, <1>3
<1>5. /\ Len(rbuf') = Len(rbuf) - n
      /\ \A i \in 1..(Len(rbuf) - n) : rbuf'[i] = rbuf[n + i]
  BY <1>1, <1>2, <1>3
<1> HIDE DEF skipped
<1>6. /\ taken' \in Seq(Nat) /\ Len(taken') = Len(taken) + n
      /\ \A i \in 1..Len(taken) : taken'[i] = taken[i]
      /\ \A i \in 1..n : taken'[Len(taken) + i] = rbuf[i]
  <2>1. taken' = taken \o skipped
    BY <1>1 DEF skipped
  <2>2. /\ taken \o skipped \in Seq(Nat) /\ Len(taken \o skipped) = Len(taken) + Len(skipped)
        /\ \A i \in 1..(Len(taken) + Len(skipped)) :
             (taken \o skipped)[i] = IF i <= Len(taken) THEN taken[i] ELSE skipped[i - Len(taken)]
    BY <1>2, <1>4, ConcatProperties
  <2>3. \A i \in 1..Len(taken) : i \in 1..(Len(taken) + n) /\ i <= Len(taken)
    BY <1>2
  <2>4. \A i \in 1..n : /\ Len(taken) + i \in 1..(Len(taken) + n) /\ ~(Len(taken) + i <= Len(taken))
                        /\ (Len(taken) + i) - Len(taken) = i
    BY <1>2
  <2> QED BY <1>4, <2>1, <2>2, <2>3, <2>4
<1>7. n \in 0..Len(rbuf) /\ rpc' # "new"
  BY <1>1, <1>2
<1> QED BY <1>1, <1>5, <1>6, <1>7, TakingKeepsStream

(* One step per action of the reader.                                      *)
LEMMA ReaderKeepsStream ==
  ASSUME Inv, StreamInv, ReadCache
  PROVE  StreamInv'
<1>1. RNext /\ UNCHANGED file
  BY DEF ReadCache, RNext
<1>2. ASSUME UNCHANGED <<rbuf, fetched, taken>>, rpc' # "new" PROVE StreamInv'
  BY <1>1, <1>2 DEF StreamInv, TakenInOrder, ByteAt
<1>3. CASE BeginRead
  BY <1>2, <1>3 DEF BeginRead
<1>4. CASE Refill
  BY <1>1, <1>4, FillingKeepsStream DEF Refill, WantsByte
<1>5. CASE TakeHeader
  BY <1>1, <1>5, HeadKeepsStream DEF TakeHeader
<1>6. CASE SkipBuffer
  BY <1>1, <1>6, FillingKeepsStream DEF SkipBuffer
<1>7. CASE SkipRest
  BY <1>1, <1>7, SkipRestKeepsStream
<1>8. CASE TakeTables
  <2>1. CASE Head(rbuf) \in {FakeEOI, Encoded}
    BY <1>2, <1>8, <2>1 DEF TakeTables, ReadCallFails
  <2>2. CASE Head(rbuf) \notin {FakeEOI, Encoded}
    BY <1>1, <1>8, <2>2, HeadKeepsStream DEF TakeTables
  <2> QED BY <2>1, <2>2
<1>9. CASE NextTiles
  BY <1>2, <1>9 DEF NextTiles
<1>10. CASE TakeByte
  BY <1>1, <1>10, HeadKeepsStream DEF TakeByte
<1>11. CASE ScanLineRead
  BY <1>2, <1>11 DEF ScanLineRead
<1>12. CASE ImageRead
  BY <1>2, <1>12 DEF ImageRead
<1>13. CASE DisposeReader
  BY <1>2, <1>13 DEF DisposeReader
<1>14. CASE TakeToEnd
  BY <1>1, <1>14, HeadKeepsStream DEF TakeToEnd
<1>15. CASE ReaderFinished
  BY <1>2, <1>15 DEF ReaderFinished
<1>16. CASE CloseReader
  BY <1>2, <1>16 DEF CloseReader
<1> QED BY <1>1, <1>3, <1>4, <1>5, <1>6, <1>7, <1>8, <1>9, <1>10, <1>11, <1>12, <1>13,
           <1>14, <1>15, <1>16 DEF RNext

(* While the file grows nothing has been taken.                            *)
LEMMA WriterKeepsStream ==
  ASSUME Inv, StreamInv, WriteCache
  PROVE  StreamInv'
<1>1. UNCHANGED <<rpc, rbuf, fetched, taken>>
  BY DEF WriteCache, rvars
<1>2. wpc # "closed" /\ Inv'
  BY WriterStep, WriterLeavesReader DEF Inv, WriteCache
<1>3. rpc = "new"
  BY <1>2 DEF Inv, ReadAfterWrite
<1>4. taken' = << >> /\ rbuf' = << >> /\ fetched' = 0
  BY <1>1, <1>3 DEF StreamInv
<1> QED BY <1>4 DEF StreamInv, TakenInOrder

(* However the provider divides the file, and wherever it ends: the decoder*)
(* takes each byte once, and markers after the last.                       *)
THEOREM BytesTakenInOrder == Spec => []TakenInOrder
<1>1. Init => StreamInv
  <2> SUFFICES ASSUME Init PROVE StreamInv
    OBVIOUS
  <2>1. taken = << >> /\ rbuf = << >> /\ fetched = 0 /\ file = << >>
    BY DEF Init, RInit
  <2> QED BY <2>1 DEF StreamInv, TakenInOrder
<1>2. Inv /\ StreamInv /\ [Next]_vars => StreamInv'
  <2>1. ASSUME StreamInv, UNCHANGED vars PROVE StreamInv'
    BY <2>1 DEF vars, rvars, StreamInv, TakenInOrder, ByteAt
  <2> QED BY <2>1, ReaderKeepsStream, WriterKeepsStream DEF Next
<1>3. StreamInv => TakenInOrder
  BY DEF StreamInv
<1> QED BY <1>1, <1>2, <1>3, Invariant, PTL DEF Spec
=============================================================================
