---------------------------- MODULE MC_FileTable ----------------------------
EXTENDS Execv, TLC

CONSTANTS f1, f2, f3, v1, v2, a1, a2

MC_Files == {f1, f2, f3}
MC_Vnodes == {v1, v2}
MC_AddrSpaces == {a1, a2}

(* Strings of the bytes "A" and "B". *)
A == 65
B == 66
Str(n) == [i \in 1..n |-> A]

(* With karg and kargbuf of KARG_SIZE = 24 bytes: two short strings (a    *)
(* block of 20 bytes); an empty string and one that fills the buffer      *)
(* exactly, ended by a failing copyin instead of a NULL; a bad uargs; a   *)
(* string of 21 bytes, whose padding runs one past the end of karg; one   *)
(* of 24, which copyinstr refuses; and three strings whose block of 28    *)
(* bytes overruns kargbuf.                                                 *)
MC_Argvs ==
    { [strs |-> <<<<A>>, <<B, A>>>>, term |-> "null"],
      [strs |-> <<<<>>, <<A, B, A, B, A>>>>, term |-> "fault"],
      [strs |-> <<Str(21)>>, term |-> "null"],
      [strs |-> <<Str(24)>>, term |-> "null"],
      [strs |-> <<<<A, A, A>>, <<B>>, <<B, B>>>>, term |-> "null"] }

(* Struct files, vnodes and address spaces are interchangeable.            *)
MC_Symmetry == Permutations(MC_Files) \cup Permutations(MC_Vnodes)
                   \cup Permutations(MC_AddrSpaces)
=============================================================================
