------------------------------- MODULE RWLock --------------------------------
(***************************************************************************)
(* The word of the reader-writer lock of src/core/ngx_rwlock.c: 0 is free, *)
(* n > 0 is n readers, NGX_RWLOCK_WLOCK (all ones) is a writer.  The lock  *)
(* functions spin on a compare-and-set until it succeeds; a turn that      *)
(* fails changes nothing, so a call is one step whose guard is the test    *)
(* that lets the compare-and-set through.                                  *)
(***************************************************************************)
EXTENDS Integers

FreeWord == 0
WriteWord == -1

Word == Nat \cup {WriteWord}

CanWrite(word) == word = FreeWord

CanRead(word) == word # WriteWord

Wlock(word) == WriteWord

Rlock(word) == word + 1

(* Slip: only a writer gives the lock back. *)
WriterLeaves(word) == IF word = WriteWord THEN FreeWord ELSE word

Unlock(word) == IF word = WriteWord THEN FreeWord ELSE word - 1
=============================================================================
