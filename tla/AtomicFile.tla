----------------------------- MODULE AtomicFile -----------------------------
(***************************************************************************)
(* What filesystem_wrapper::atomicWriteFile promises: a file that has one  *)
(* whole version at any time.  Replacing it takes effect at once; until    *)
(* the replacement is made durable, a crash may bring back an earlier      *)
(* version, but never anything else.                                       *)
(***************************************************************************)
EXTENDS Integers

VARIABLES version,      \* version in the file, or -1: there is no file
          candidates    \* versions a crash may leave in the file

vars == <<version, candidates>>

Init == version \in {-1, 0} /\ candidates = {version}

Replace ==
    /\ version' \in Nat
    /\ version' > version
    /\ candidates' = candidates \cup {version'}

MakeDurable == candidates' = {version} /\ UNCHANGED version

Crash == version' \in candidates /\ candidates' = {version'}

Next == Replace \/ MakeDurable \/ Crash

Spec == Init /\ [][Next]_vars
=============================================================================
