----------------------------- MODULE JPEGCache -----------------------------
(***************************************************************************)
(* A preview is written to a file of the file cache, and read when it is   *)
(* shown again (PreviewUpdater.writeCache() and readCache()): JPEGWriter   *)
(* and JPEGReader one after the other on the same file.                    *)
(***************************************************************************)
EXTENDS JPEGWriter, JPEGReader

VARIABLE entry  (* of the file cache: "none", "open", "present"            *)

vars == <<rowBytes, file, entry, wvars, rvars>>

Init ==
  /\ rowBytes \in 1..MaxRowBytes /\ file = << >> /\ entry = "none"
  /\ WInit /\ RInit

TypeOK == entry \in {"none", "open", "present"} /\ WTypeOK /\ RTypeOK

(* writeCache() up to its end, where an exception removes the entry.       *)
WriteCache ==
  /\ WNext /\ UNCHANGED rvars
  /\ entry' = IF wpc' # "closed" THEN "open" ELSE IF wthrown THEN "none" ELSE "present"

(* readCache(), where an exception removes the entry.                      *)
ReadCache ==
  /\ entry = "present"
  /\ RNext /\ UNCHANGED wvars
  /\ entry' = IF rpc' = "closed" /\ rthrown THEN "none" ELSE entry

Next == WriteCache \/ ReadCache

(* Both run in one thread, which nothing holds up.                         *)
Spec == Init /\ [][Next]_vars /\ WF_vars(Next)

-----------------------------------------------------------------------------
(* Each scanline of a preview from the cache is made of its own bytes: of  *)
(* all that fails on the way, in the provider, in a strip, by a cancel,    *)
(* only the failure of a last put goes unnoticed and leaves a preview with *)
(* made-up scanlines.                                                      *)
PreviewIsWhole ==
  rpc = "closed" /\ ~rthrown /\ putFailed # "finish" =>
    picture = [n \in 1..Height |-> BytesOf(EndOf(n - 1) + 1, EndOf(n))]

(* Whatever failed or was canceled on the way, in beginRead() too, each    *)
(* native object was deleted once when its Java object is closed, and no   *)
(* pointer to it is left.                                                  *)
DeletedOnce ==
  /\ wpc = "closed" => wdeleted = 1 /\ ~wptr
  /\ rpc = "closed" => rdeleted = 1 /\ ~rptr

(* The write ends, and the read of what it leaves, though the file may be  *)
(* short: at its end the decoder gets a marker as often as it asks.        *)
EntrySettles ==
  /\ <>(wpc = "closed")
  /\ [](entry = "present" => <>(rpc = "closed"))
=============================================================================
