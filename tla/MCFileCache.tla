---------------------------- MODULE MCFileCache ----------------------------
(* Instances of FileCache for TLC: a thread of the browser that puts and   *)
(* reads entries, and another one that removes one of them or clears all.  *)
EXTENDS FileCache

CONSTANTS queue, user, thumbnail, preview

TwoThreads ==
  {[caller |-> queue, op |-> "put", key |-> thumbnail],
   [caller |-> queue, op |-> "get", key |-> thumbnail],
   [caller |-> queue, op |-> "put", key |-> preview],
   [caller |-> user, op |-> "remove", key |-> thumbnail],
   [caller |-> user, op |-> "clear", key |-> preview]}

=============================================================================
