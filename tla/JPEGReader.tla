----------------------------- MODULE JPEGReader -----------------------------
(***************************************************************************)
(* LCJPEGReader, LC_JPEGReader and LC_source_mgr: an image is decompressed *)
(* from what an LCImageDataProvider gets, a buffer at a time, in pieces of *)
(* any size.                                                               *)
(*                                                                         *)
(* The decoder (external) takes the header, of which it skips what it does *)
(* not know, and the bytes of each scanline.  When it meets an             *)
(* end-of-image marker it makes up the scanlines that are left.            *)
(***************************************************************************)
EXTENDS JPEGFile

CONSTANTS
  ReadBuf,      (* bufSize                                                 *)
  ReadStrip     (* TILE_HEIGHT                                             *)

ASSUME ReaderAssumption ==
  /\ {ReadBuf, ReadStrip} \subseteq Nat \ {0}
  /\ HeaderBytes > 1

(* Stands for each byte of the marker that LC_fill_input_buffer() makes.   *)
FakeEOI == 0

VARIABLES
  rpc,          (* where getImage() is                                     *)
  rptr,         (* m_nativePtr is not 0                                    *)
  rbuf,         (* the bytes_in_buffer bytes from next_input_byte on       *)
  startOfFile,  (* m_startOfFile                                           *)
  fetched,      (* bytes that the provider has handed out                  *)
  taken,        (* what the decoder has taken or skipped                   *)
  skipLeft,     (* numBytes                                                *)
  eoi,          (* the decoder has met an end-of-image marker              *)
  picture,      (* the bytes of each scanline that is decoded              *)
  stripEnd,     (* the scanline that this readScanLines() ends with        *)
  rthrown,      (* getImage() throws                                       *)
  rdeleted      (* history: times that the LC_JPEGReader was deleted       *)

rvars == <<rpc, rptr, rbuf, startOfFile, fetched, taken, skipLeft, eoi, picture, stripEnd,
           rthrown, rdeleted>>

RInit ==
  /\ rpc = "new" /\ rptr = FALSE
  /\ rbuf = << >> /\ startOfFile = FALSE /\ fetched = 0
  /\ taken = << >> /\ skipLeft = 0 /\ eoi = FALSE
  /\ picture = << >> /\ stripEnd = 0
  /\ rthrown = FALSE /\ rdeleted = 0

RTypeOK ==
  /\ rpc \in {"new", "header", "skip", "tables", "image", "strip", "disposing", "finish", "got", "closed"}
  /\ {rptr, startOfFile, eoi, rthrown} \subseteq BOOLEAN
  /\ Len(rbuf) \in 0..Max({ReadBuf, 2}) /\ fetched \in 0..Len(file)
  /\ skipLeft \in 0..HeaderBytes /\ Len(picture) \in 0..Height /\ stripEnd \in 0..Height
  /\ rdeleted \in Nat

-----------------------------------------------------------------------------
(* A call that a C++ exception leaves.  After readScanLines() returns -1   *)
(* readImage() goes on as at the end of the image.  beginRead() has set    *)
(* neither m_nativePtr nor m_width, so that readImage() throws.            *)
ReadCallFails ==
  /\ rthrown' = (rthrown \/ rpc \in {"header", "skip", "tables"})
  /\ rpc' = IF rpc = "strip" THEN "disposing" ELSE "got"
  /\ rdeleted' = IF rpc = "strip" THEN rdeleted ELSE rdeleted + 1
  /\ UNCHANGED <<rbuf, startOfFile, fetched, taken, skipLeft>>

(* Mutant of FillInputBuffer: no marker is made at the end of the file.    *)
FillWithNothing(left) ==
  /\ rbuf' = << >> /\ startOfFile' = FALSE /\ UNCHANGED fetched
  /\ taken' = taken \o rbuf
  /\ skipLeft' = left
  /\ UNCHANGED <<rpc, rthrown, rdeleted>>

(* LC_fill_input_buffer(), when the decoder or LC_skip_input_data() has    *)
(* used what is in the buffer.  The provider may throw.                    *)
FillInputBuffer(left) ==
  \/ /\ \/ /\ fetched < Len(file)
           /\ \E k \in 1..Min({ReadBuf, Len(file) - fetched}) :
                rbuf' = SubSeq(file, fetched + 1, fetched + k) /\ fetched' = fetched + k
        \/ /\ fetched = Len(file) /\ ~startOfFile
           /\ rbuf' = <<FakeEOI, FakeEOI>> /\ UNCHANGED fetched
     /\ startOfFile' = FALSE
     /\ taken' = taken \o rbuf
     /\ skipLeft' = left
     /\ UNCHANGED <<rpc, rthrown, rdeleted>>
  \/ ReadCallFails

(* beginRead() up to the first byte that jpeg_read_header() asks for.      *)
BeginRead ==
  /\ rpc = "new"
  /\ rpc' = "header"
  /\ startOfFile' = TRUE
  /\ UNCHANGED <<rptr, rbuf, fetched, taken, skipLeft, eoi, picture, stripEnd, rthrown, rdeleted>>

(* The decoder wants a byte: of the header, of a scanline, of what follows *)
(* the last one.                                                           *)
WantsByte ==
  /\ ~eoi
  /\ \/ rpc \in {"header", "tables", "finish"}
     \/ rpc = "strip" /\ Len(Last(picture)) < rowBytes

(* It finds the buffer empty.                                              *)
Refill ==
  /\ WantsByte /\ rbuf = << >>
  /\ FillInputBuffer(skipLeft)
  /\ UNCHANGED <<rptr, eoi, picture, stripEnd>>

(* The first byte of the header, after which a part of it is skipped.      *)
TakeHeader ==
  /\ rpc = "header" /\ rbuf # << >>
  /\ taken' = Append(taken, Head(rbuf)) /\ rbuf' = Tail(rbuf)
  /\ skipLeft' = HeaderBytes - 2
  /\ rpc' = "skip"
  /\ UNCHANGED <<rptr, startOfFile, fetched, eoi, picture, stripEnd, rthrown, rdeleted>>

(* The last one, with which start_decompress() and beginRead() end.  A     *)
(* file without an image is an error of the library.                       *)
TakeTables ==
  /\ rpc = "tables" /\ rbuf # << >>
  /\ IF Head(rbuf) \in {FakeEOI, Encoded}
     THEN ReadCallFails /\ UNCHANGED rptr
     ELSE /\ taken' = Append(taken, Head(rbuf)) /\ rbuf' = Tail(rbuf)
          /\ rptr' = TRUE
          /\ rpc' = "image"
          /\ UNCHANGED <<startOfFile, fetched, skipLeft, rthrown, rdeleted>>
  /\ UNCHANGED <<eoi, picture, stripEnd>>

(* LC_skip_input_data(): a round of its loop.                              *)
SkipBuffer ==
  /\ rpc = "skip" /\ skipLeft > Len(rbuf)
  /\ FillInputBuffer(skipLeft - Len(rbuf))
  /\ UNCHANGED <<rptr, eoi, picture, stripEnd>>

(* Mutant of SkipRest: the position is left where it was.                  *)
SkipForgotten ==
  /\ rpc = "skip" /\ skipLeft <= Len(rbuf)
  /\ taken' = taken \o SubSeq(rbuf, 1, skipLeft)
  /\ skipLeft' = 0
  /\ rpc' = "tables"
  /\ UNCHANGED <<rptr, rbuf, startOfFile, fetched, eoi, picture, stripEnd, rthrown, rdeleted>>

(* The last of the skip.                                                   *)
SkipRest ==
  /\ rpc = "skip" /\ skipLeft <= Len(rbuf)
  /\ taken' = taken \o SubSeq(rbuf, 1, skipLeft)
  /\ rbuf' = SubSeq(rbuf, skipLeft + 1, Len(rbuf))
  /\ skipLeft' = 0
  /\ rpc' = "tables"
  /\ UNCHANGED <<rptr, startOfFile, fetched, eoi, picture, stripEnd, rthrown, rdeleted>>

(* readImage() has the next tiles' scanlines read.                         *)
NextTiles ==
  /\ rpc = "image" /\ Len(picture) < Height
  /\ stripEnd' = Min({Len(picture) + ReadStrip, Height})
  /\ picture' = Append(picture, << >>)
  /\ rpc' = "strip"
  /\ UNCHANGED <<rptr, rbuf, startOfFile, fetched, taken, skipLeft, eoi, rthrown, rdeleted>>

(* The decoder takes a byte of the scanline it is at.                      *)
TakeByte ==
  /\ rpc = "strip" /\ WantsByte /\ rbuf # << >>
  /\ IF Head(rbuf) \in {FakeEOI, Encoded}
     THEN eoi' = TRUE /\ UNCHANGED picture
     ELSE picture' = [picture EXCEPT ![Len(picture)] = Append(@, Head(rbuf))] /\ UNCHANGED eoi
  /\ taken' = Append(taken, Head(rbuf)) /\ rbuf' = Tail(rbuf)
  /\ UNCHANGED <<rpc, rptr, startOfFile, fetched, skipLeft, stripEnd, rthrown, rdeleted>>

(* A scanline is read; with the last of the strip readScanLines() returns. *)
ScanLineRead ==
  /\ rpc = "strip"
  /\ eoi \/ Len(Last(picture)) = rowBytes
  /\ IF Len(picture) < stripEnd
     THEN picture' = Append(picture, << >>) /\ UNCHANGED rpc
     ELSE rpc' = "image" /\ UNCHANGED picture
  /\ UNCHANGED <<rptr, rbuf, startOfFile, fetched, taken, skipLeft, eoi, stripEnd, rthrown,
                 rdeleted>>

(* readImage() is through, or throws because the user canceled.            *)
ImageRead ==
  /\ rpc = "image"
  /\ rthrown' = (Len(picture) < Height)
  /\ rpc' = "disposing"
  /\ UNCHANGED <<rptr, rbuf, startOfFile, fetched, taken, skipLeft, eoi, picture, stripEnd,
                 rdeleted>>

(* Mutant of DisposeReader: the exception of dispose() is ignored.         *)
DisposeIgnored ==
  /\ rpc = "disposing"
  /\ rptr' = FALSE
  /\ rpc' = "got" /\ rdeleted' = rdeleted + 1
  /\ UNCHANGED rthrown
  /\ UNCHANGED <<rbuf, startOfFile, fetched, taken, skipLeft, eoi, picture, stripEnd>>

(* The scanlines that the decoder has output.                              *)
ScanLinesOutput ==
  IF eoi \/ picture = << >> \/ Len(Last(picture)) = rowBytes THEN Len(picture)
                                                              ELSE Len(picture) - 1

(* dispose() deletes the reader: when scanlines are missing the library    *)
(* throws, else it reads on to the end of the image.                       *)
DisposeReader ==
  /\ rpc = "disposing"
  /\ rptr' = FALSE
  /\ IF ScanLinesOutput < Height
     THEN rthrown' = TRUE /\ rpc' = "got" /\ rdeleted' = rdeleted + 1
     ELSE rpc' = "finish" /\ UNCHANGED <<rthrown, rdeleted>>
  /\ UNCHANGED <<rbuf, startOfFile, fetched, taken, skipLeft, eoi, picture, stripEnd>>

(* jpeg_finish_decompress().                                               *)
TakeToEnd ==
  /\ rpc = "finish" /\ WantsByte /\ rbuf # << >>
  /\ eoi' = (Head(rbuf) \in {FakeEOI, Encoded})
  /\ taken' = Append(taken, Head(rbuf)) /\ rbuf' = Tail(rbuf)
  /\ UNCHANGED <<rpc, rptr, startOfFile, fetched, skipLeft, picture, stripEnd, rthrown, rdeleted>>

ReaderFinished ==
  /\ rpc = "finish" /\ eoi
  /\ rpc' = "got" /\ rdeleted' = rdeleted + 1
  /\ UNCHANGED <<rptr, rbuf, startOfFile, fetched, taken, skipLeft, eoi, picture, stripEnd,
                 rthrown>>

(* close() disposes once more.                                             *)
CloseReader ==
  /\ rpc = "got"
  /\ rpc' = "closed"
  /\ rdeleted' = IF rptr THEN rdeleted + 1 ELSE rdeleted
  /\ rptr' = FALSE
  /\ UNCHANGED <<rbuf, startOfFile, fetched, taken, skipLeft, eoi, picture, stripEnd, rthrown>>

RNext ==
  /\ \/ BeginRead \/ Refill \/ TakeHeader \/ SkipBuffer \/ SkipRest \/ TakeTables \/ NextTiles
     \/ TakeByte \/ ScanLineRead \/ ImageRead \/ DisposeReader \/ TakeToEnd \/ ReaderFinished \/ CloseReader
  /\ UNCHANGED <<rowBytes, file>>

-----------------------------------------------------------------------------
(* The bytes that a decoder is to find: those of the file, then markers.   *)
ByteAt(i) == IF i <= Len(file) THEN file[i] ELSE FakeEOI

(* The decoder takes the bytes of the file from the first on, none twice,  *)
(* none left out, with markers made up only after the last: however the    *)
(* provider divides them and wherever a skip ends.                         *)
TakenInOrder == \A i \in 1..Len(taken) : taken[i] = ByteAt(i)
=============================================================================
