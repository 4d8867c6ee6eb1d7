----------------------------- MODULE JPEGWriter -----------------------------
(***************************************************************************)
(* LCJPEGWriter, LC_JPEGWriter and LC_dest_mgr: one image is compressed    *)
(* and put, a buffer at a time, to an LCImageDataReceiver.                 *)
(*                                                                         *)
(* A native call is several steps here, a byte each, because any of its    *)
(* puts may fail.  An exception of the receiver is described, and so       *)
(* cleared, by LC_checkForJavaException(): what unwinds the call is a C++  *)
(* exception, and Java sees what the call returns.                         *)
(***************************************************************************)
EXTENDS JPEGFile

CONSTANTS
  WriteBuf,     (* bufSize                                                 *)
  WriteStrip    (* stripHeight                                             *)

(* The markers that start_compress() writes, 20 bytes, do not fill the     *)
(* buffer: bufSize is 1024 or more.                                        *)
ASSUME WriterAssumption ==
  /\ {WriteBuf, WriteStrip} \subseteq Nat \ {0}
  /\ HeaderBytes < WriteBuf

VARIABLES
  wpc,          (* where putImage() is                                     *)
  wptr,         (* m_nativePtr is not 0                                    *)
  wbuf,         (* m_buffer                                                *)
  free,         (* free_in_buffer                                          *)
  emitted,      (* bytes that the compressor has made                      *)
  todo,         (* bytes it is to make in this call                        *)
  written,      (* next_scanline                                           *)
  wthrown,      (* putImage() throws                                       *)
  wdeleted,     (* history: times that the LC_JPEGWriter was deleted       *)
  putFailed     (* history: in which call a put failed                     *)

wvars == <<wpc, wptr, wbuf, free, emitted, todo, written, wthrown, wdeleted, putFailed>>

WInit ==
  /\ wpc = "new" /\ wptr = FALSE
  /\ wbuf = [i \in 1..WriteBuf |-> 0] /\ free = 0
  /\ emitted = 0 /\ todo = 0 /\ written = 0
  /\ wthrown = FALSE /\ wdeleted = 0 /\ putFailed = "no"

WTypeOK ==
  /\ wpc \in {"new", "image", "strip", "disposing", "finish", "put", "closed"}
  /\ wptr \in BOOLEAN /\ wthrown \in BOOLEAN
  /\ wbuf \in [1..WriteBuf -> 0..Encoded] /\ free \in 0..WriteBuf
  /\ emitted \in 0..Encoded /\ todo \in 0..Encoded /\ written \in 0..Height
  /\ wdeleted \in Nat /\ putFailed \in {"no", "strip", "finish"}
  /\ \A i \in 1..Len(file) : file[i] \in 0..Encoded

-----------------------------------------------------------------------------
(* The receiver is handed the buffer up to its limit n.                    *)
Receive(n) == file' = file \o SubSeq(wbuf, 1, n)

(* It throws after it took any part of that.                               *)
ReceiveFails(n) ==
  /\ \E k \in 0..n : Receive(k)
  /\ putFailed' = wpc

(* beginWrite(): compression starts with the header in the buffer.         *)
BeginWrite ==
  /\ wpc = "new"
  /\ wptr' = TRUE
  /\ wbuf' = [i \in 1..WriteBuf |-> IF i <= HeaderBytes THEN i ELSE wbuf[i]]
  /\ free' = WriteBuf - HeaderBytes
  /\ emitted' = HeaderBytes
  /\ wpc' = "image"
  /\ UNCHANGED <<rowBytes, file, todo, written, wthrown, wdeleted, putFailed>>

(* writeImage() has the next strip written, unless the user canceled.      *)
NextStrip ==
  /\ wpc = "image" /\ written < Height
  /\ todo' = rowBytes * Min({WriteStrip, Height - written})
  /\ wpc' = "strip"
  /\ UNCHANGED <<rowBytes, file, wptr, wbuf, free, emitted, written, wthrown, wdeleted,
                 putFailed>>

(* The compressor makes a byte.                                            *)
Emit ==
  /\ todo > 0 /\ free > 0
  /\ wbuf' = [wbuf EXCEPT ![WriteBuf - free + 1] = emitted + 1]
  /\ free' = free - 1
  /\ emitted' = emitted + 1
  /\ todo' = todo - 1
  /\ UNCHANGED <<rowBytes, file, wpc, wptr, written, wthrown, wdeleted, putFailed>>

(* A call that a C++ exception leaves.  writeImage() throws because        *)
(* writeScanLines() returns -1; the destructor swallows the exception.     *)
WriteCallFails ==
  /\ todo' = 0
  /\ wthrown' = (wthrown \/ wpc = "strip")
  /\ wpc' = IF wpc = "strip" THEN "disposing" ELSE "put"
  /\ wdeleted' = IF wpc = "strip" THEN wdeleted ELSE wdeleted + 1

(* LC_empty_output_buffer(), when a byte has filled the buffer.            *)
EmptyOutputBuffer ==
  /\ wpc \in {"strip", "finish"} /\ free = 0
  /\ \/ /\ Receive(WriteBuf)
        /\ free' = WriteBuf
        /\ UNCHANGED <<wpc, todo, wthrown, wdeleted, putFailed>>
     \/ ReceiveFails(WriteBuf) /\ WriteCallFails /\ UNCHANGED free
  /\ UNCHANGED <<rowBytes, wptr, wbuf, emitted, written>>

(* Mutant of StripWritten: the last strip is as high as the others.        *)
WholeStripWritten ==
  /\ wpc = "strip" /\ todo = 0 /\ free > 0
  /\ written' = written + WriteStrip
  /\ wpc' = "image"
  /\ UNCHANGED <<rowBytes, file, wptr, wbuf, free, emitted, todo, wthrown, wdeleted,
                 putFailed>>

(* writeScanLines() returns the height of the strip.                       *)
StripWritten ==
  /\ wpc = "strip" /\ todo = 0 /\ free > 0
  /\ written' = Min({written + WriteStrip, Height})
  /\ wpc' = "image"
  /\ UNCHANGED <<rowBytes, file, wptr, wbuf, free, emitted, todo, wthrown, wdeleted,
                 putFailed>>

(* writeImage() returns, or the user cancels it.                           *)
LeaveImage ==
  /\ wpc = "image"
  /\ wpc' = "disposing"
  /\ UNCHANGED <<rowBytes, file, wptr, wbuf, free, emitted, todo, written, wthrown,
                 wdeleted, putFailed>>

(* dispose() deletes the writer: when scanlines are missing the library    *)
(* throws (a Java exception this time), else it makes the last marker.     *)
DisposeWriter ==
  /\ wpc = "disposing"
  /\ wptr' = FALSE
  /\ IF written < Height
     THEN wthrown' = TRUE /\ wdeleted' = wdeleted + 1 /\ wpc' = "put" /\ UNCHANGED todo
     ELSE todo' = 1 /\ wpc' = "finish" /\ UNCHANGED <<wthrown, wdeleted>>
  /\ UNCHANGED <<rowBytes, file, wbuf, free, emitted, written, putFailed>>

(* Mutant of TermDestination: the limit of the buffer is not set, so all   *)
(* of it is put.                                                           *)
TermWithoutLimit ==
  /\ wpc = "finish" /\ todo = 0 /\ free > 0
  /\ Receive(WriteBuf)
  /\ wdeleted' = wdeleted + 1 /\ wpc' = "put" /\ UNCHANGED <<todo, wthrown, putFailed>>
  /\ UNCHANGED <<rowBytes, wptr, wbuf, free, emitted, written>>

(* LC_term_destination(): what is left in the buffer is put.               *)
TermDestination ==
  /\ wpc = "finish" /\ todo = 0 /\ free > 0
  /\ \/ /\ Receive(WriteBuf - free)
        /\ wdeleted' = wdeleted + 1
        /\ wpc' = "put"
        /\ UNCHANGED <<todo, wthrown, putFailed>>
     \/ free < WriteBuf /\ ReceiveFails(WriteBuf - free) /\ WriteCallFails
  /\ UNCHANGED <<rowBytes, wptr, wbuf, free, emitted, written>>

(* Mutant of CloseWriter: close() deletes the writer of putImage() again.  *)
CloseDeletes ==
  /\ wpc = "put"
  /\ wpc' = "closed"
  /\ wdeleted' = wdeleted + 1
  /\ UNCHANGED <<rowBytes, file, wptr, wbuf, free, emitted, todo, written, wthrown, putFailed>>

(* close() disposes once more.                                             *)
CloseWriter ==
  /\ wpc = "put"
  /\ wpc' = "closed"
  /\ wdeleted' = IF wptr THEN wdeleted + 1 ELSE wdeleted
  /\ wptr' = FALSE
  /\ UNCHANGED <<rowBytes, file, wbuf, free, emitted, todo, written, wthrown, putFailed>>

WNext ==
  \/ BeginWrite \/ NextStrip \/ Emit \/ EmptyOutputBuffer \/ StripWritten \/ LeaveImage
  \/ DisposeWriter \/ TermDestination \/ CloseWriter

-----------------------------------------------------------------------------
(* Until a put fails, what the receiver has and what the buffer holds are  *)
(* the bytes of the compressor, in order, none twice, none left out: the   *)
(* destination manager's reset(), its limit and the position of the        *)
(* library in m_buffer go together.                                        *)
WrittenInOrder ==
  putFailed = "no" /\ wpc # "new" =>
    IF wpc \in {"put", "closed"}
    THEN (wthrown \/ emitted = Encoded) /\ IsPrefix(file, BytesOf(1, emitted))
         /\ (wthrown \/ Len(file) = emitted)
    ELSE file \o SubSeq(wbuf, 1, WriteBuf - free) = BytesOf(1, emitted)
=============================================================================
