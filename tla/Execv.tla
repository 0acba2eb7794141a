------------------------------- MODULE Execv -------------------------------
(***************************************************************************)
(* sys_execv of kern/syscall/fork.c, added to the system calls of the     *)
(* process of FileTable: the program vnode takes its reference from the   *)
(* same vnode counts as the open files, and execv keeps the descriptor    *)
(* table.  The argument vector is marshalled by copy_args into the static *)
(* buffers karg and kargbuf (both 64 KiB, KARG_SIZE here), its offsets    *)
(* are relocated by adjust_kargbuf and the block is copied out below the  *)
(* top of the new user stack.                                              *)
(*                                                                         *)
(* lk_exec serialises the execs of all processes and is held from before  *)
(* the first copyinstr to after the copyout; a process runs one thread,   *)
(* so one execv is one step.  karg is state: copy_args leaves bytes in it *)
(* that the next execv copies out.  kargbuf is not: copyout reads exactly *)
(* the buflen bytes copy_args has just written, so its earlier content is *)
(* never read and the model starts it from zeros.                          *)
(*                                                                         *)
(* A user argv is a record: strs, the strings up to where the copyin of   *)
(* the pointer array stopped, and term, "null" for a NULL pointer there   *)
(* and "fault" for a copyin that failed (uargs == NULL is the fault at    *)
(* index 0).  A string is a sequence of non-zero bytes.  Address spaces   *)
(* are members of AddrSpaces; as_create, load_elf, as_define_stack, the   *)
(* name copyinstr, vfs_open and copyout may fail when CanFail holds.      *)
(***************************************************************************)
EXTENDS FileTable, SequencesExt

CONSTANTS KARG_SIZE,   \* sizeof(karg) = sizeof(kargbuf)
          USERSTACK,   \* the stack pointer as_define_stack returns
          Argvs,       \* the argument vectors execv is called with
          AddrSpaces

ASSUME /\ KARG_SIZE \in Nat \ {0}
       /\ USERSTACK \in Nat /\ USERSTACK < 2^24
       /\ \A a \in Argvs : a.term \in {"null", "fault"}

VARIABLES as_cur,     \* curthread->t_addrspace
          as_live,    \* the address spaces created and not destroyed
          karg,       \* the static char karg[64 * 1024]
          ustack,     \* the block the last successful execv copied out,
                      \* with the argc it passed to enter_new_process
          exec_args   \* the strings that execv was given

execVars == <<as_cur, as_live, karg, ustack, exec_args>>
procVars == <<vars, execVars>>

KIdx == 0..KARG_SIZE - 1

-----------------------------------------------------------------------------
(* copyinstr(s, karg, sizeof(karg)): the bytes of s and its NUL; a string *)
(* too long for the buffer fills it and fails with ENAMETOOLONG.           *)
FitsKarg(s) == Len(s) < KARG_SIZE

copyinstr(buf, s) ==
    [i \in KIdx |-> IF i < Len(s) THEN s[i + 1]
                    ELSE IF i = Len(s) THEN 0 ELSE buf[i]]

get_aligned_length(s) ==
    LET len == Len(s) + 1
    IN IF len % 4 = 0 THEN len ELSE len + (4 - (len % 4))

(* align_arg(karg, 4): after the scan p is one past the NUL, and the loop *)
(* zeroes ++p: karg[len + 1 .. len + diff], skipping karg[len].            *)
AlignPads(s) ==
    LET len == Len(s) + 1
        diff == IF len % 4 = 0 THEN 0 ELSE 4 - (len % 4)
    IN {len + j : j \in 1..diff}

align_arg(buf, s) ==
    LET pads == AlignPads(s) IN [i \in KIdx |-> IF i \in pads THEN 0 ELSE buf[i]]

(* The four bytes of a uint32_t, least significant first, as copy_args    *)
(* stores an offset, and as memcpy of an int stores it on the big-endian  *)
(* MIPS.                                                                   *)
LEBytes(x) == [j \in 1..4 |-> (x \div 2^(8 * (j - 1))) % 256]
NativeBytes(x) == [j \in 1..4 |-> (x \div 2^(8 * (4 - j))) % 256]

Put(buf, base, bytes) ==
    LET n == Len(bytes)
    IN [i \in KIdx |-> IF base <= i /\ i < base + n THEN bytes[i - base + 1]
                       ELSE buf[i]]

Fits(base, n) == base + n <= KARG_SIZE

(* The first loop of copy_args: every string is copyinstr'd into karg.    *)
RECURSIVE FirstPass(_, _)
FirstPass(buf, strs) ==
    IF strs = <<>> THEN [karg |-> buf, err |-> FALSE]
    ELSE IF ~FitsKarg(Head(strs))
         THEN [karg |-> copyinstr(buf, Head(strs)), err |-> TRUE]
         ELSE FirstPass(copyinstr(buf, Head(strs)), Tail(strs))

BufLen(strs) ==
    FoldLeft(LAMBDA n, s : n + get_aligned_length(s) + 4, 0, strs) + 4

(* The second loop: offset = last_offset + nlast, align_arg, the offset   *)
(* into p_begin, memcpy(p_end, karg, nlast).  A write past the end of     *)
(* karg or kargbuf stops the walk with oob.                                *)
RECURSIVE SecondPass(_, _)
SecondPass(st, strs) ==
    IF strs = <<>> \/ st.oob THEN st
    ELSE LET s == Head(strs)
             k == align_arg(copyinstr(st.karg, s), s)
             offset == st.last_offset + st.nlast
             nlast == get_aligned_length(s)
         IN IF \E i \in AlignPads(s) : i \notin KIdx
               \/ ~Fits(st.p_begin, 4) \/ ~Fits(st.p_end, nlast)
            THEN [st EXCEPT !.oob = TRUE]
            ELSE SecondPass(
                   [karg |-> k,
                    kbuf |-> Put(Put(st.kbuf, st.p_begin, LEBytes(offset)),
                                 st.p_end, [j \in 1..nlast |-> k[j - 1]]),
                    p_begin |-> st.p_begin + 4, p_end |-> st.p_end + nlast,
                    last_offset |-> offset, nlast |-> nlast, oob |-> FALSE],
                   Tail(strs))

(* copy_args(uargs, &nargs, &buflen): an error of the first loop, or a    *)
(* failed copyin before any string, is returned; a copyin that fails      *)
(* after one ends the vector there.  The second loop ends with a NULL.    *)
copy_args(a, k) ==
    LET p1 == FirstPass(k, a.strs)
        nargs == Len(a.strs) + 1
        st == SecondPass([karg |-> p1.karg, kbuf |-> [i \in KIdx |-> 0],
                          p_begin |-> 0, p_end |-> 4 * nargs,
                          last_offset |-> 4 * nargs, nlast |-> 0,
                          oob |-> FALSE], a.strs)
    IN IF p1.err \/ (a.strs = <<>> /\ a.term = "fault")
       THEN [err |-> TRUE, oob |-> FALSE, karg |-> p1.karg]
       ELSE [err |-> FALSE, oob |-> st.oob \/ ~Fits(st.p_begin, 4),
             karg |-> st.karg, nargs |-> nargs, buflen |-> BufLen(a.strs),
             kbuf |-> Put(st.kbuf, st.p_begin, <<0, 0, 0, 0>>)]

(* The bytes karg can hold between two execs, and copy_args for each argv *)
(* and each of them: TLC evaluates both once.                              *)
RECURSIVE KargClosure(_)
KargClosure(S) ==
    LET T == S \cup {copy_args(a, k).karg : a \in Argvs, k \in S}
    IN IF T = S THEN S ELSE KargClosure(T)

KargValues == KargClosure({[i \in KIdx |-> 0]})

CopyArgsTable == [a \in Argvs, k \in KargValues |-> copy_args(a, k)]

(* adjust_kargbuf(nparams, stack_ptr): each of the first nparams - 1       *)
(* offsets is read back little-endian and overwritten by stack_ptr plus   *)
(* it in the machine's order.                                              *)
ReadLE(buf, idx) ==
    buf[idx] + 256 * buf[idx + 1] + 2^16 * buf[idx + 2] + 2^24 * buf[idx + 3]

(* Fault-injected variant: the loop runs to i < nparams and relocates the *)
(* NULL that ends the pointer array.                                       *)
adjust_kargbuf_all(kbuf, nparams, sp) ==
    LET word == [w \in 0..nparams - 1 |-> NativeBytes(sp + ReadLE(kbuf, 4 * w))]
    IN [i \in KIdx |-> IF i \div 4 < nparams THEN word[i \div 4][(i % 4) + 1]
                       ELSE kbuf[i]]

adjust_kargbuf(kbuf, nparams, sp) ==
    LET word == [w \in 0..nparams - 2 |-> NativeBytes(sp + ReadLE(kbuf, 4 * w))]
    IN [i \in KIdx |-> IF i \div 4 < nparams - 1 THEN word[i \div 4][(i % 4) + 1]
                       ELSE kbuf[i]]

-----------------------------------------------------------------------------
ExecFault == fault' = "out_of_bounds" /\ UNCHANGED <<stateVars, execVars>>

(* The returns after vfs_open: lock_release(lk_exec) and vfs_close(vn),   *)
(* given the vnode counts after the vfs_open.                              *)
ExecReturn(rc1, v) ==
    /\ vn_refcount' = vfs_close(rc1, v)
    /\ UNCHANGED <<fd_ofiles, fd_lk, allocated, f_refcount, f_vnode,
                   f_oflags, fault, as_cur, ustack, exec_args>>

(* The returns after the switch to as_new: t_addrspace = as_old,          *)
(* as_activate(as_old), as_destroy(as_new), vfs_close(vn), lock_release.  *)
(* Fault-injected variant: the unwind leaves out as_destroy(as_new).       *)
UnwindNew_keep(rc1, v, new) ==
    /\ as_live' = as_live \cup {new}
    /\ ExecReturn(rc1, v)

UnwindNew(rc1, v, new) ==
    /\ as_live' = as_live
    /\ ExecReturn(rc1, v)

(* sys_execv(upname, uargs).  The copyinstr of the name, vfs_open,        *)
(* copy_args, as_create, load_elf, as_define_stack and copyout may fail;   *)
(* adjust_kargbuf always returns 0, so its error branch is dead.  On       *)
(* success lk_exec is released, vn closed, as_old destroyed and the new    *)
(* program entered with argc = nargs - 1 and argv = stack_ptr.             *)
sys_execv(v, a) ==
    LET rc1 == vfs_open(vn_refcount, v)
        ca == CopyArgsTable[a, karg]
    IN \/ CanFail /\ UNCHANGED <<stateVars, fault, execVars>>
       \/ /\ ca.oob
          /\ ExecFault
       \/ /\ ca.err
          /\ karg' = ca.karg
          /\ as_live' = as_live
          /\ ExecReturn(rc1, v)
       \/ /\ ~ca.err /\ ~ca.oob
          /\ karg' = ca.karg
          /\ \/ CanFail /\ as_live' = as_live /\ ExecReturn(rc1, v)
             \/ \E new \in AddrSpaces \ as_live :
                   LET sp == USERSTACK - ca.buflen
                       kbuf == adjust_kargbuf(ca.kbuf, ca.nargs, sp)
                   IN \/ CanFail /\ UnwindNew(rc1, v, new)
                      \/ /\ as_cur' = new
                         /\ as_live' = (as_live \ {as_cur}) \cup {new}
                         /\ ustack' = [sp |-> sp, argc |-> ca.nargs - 1,
                                       mem |-> [j \in 1..ca.buflen |-> kbuf[j - 1]]]
                         /\ exec_args' = a.strs
                         /\ vn_refcount' = vfs_close(rc1, v)
                         /\ UNCHANGED <<fd_ofiles, fd_lk, allocated,
                                        f_refcount, f_vnode, f_oflags, fault>>

-----------------------------------------------------------------------------
(* The process after runprogram: one address space, karg zeroed (static). *)
ProcInit ==
    /\ Init
    /\ as_cur \in AddrSpaces
    /\ as_live = {as_cur}
    /\ karg = [i \in KIdx |-> 0]
    /\ ustack = NULL
    /\ exec_args = NULL

ExecCall == Running /\ calls' = calls + 1 /\ UNCHANGED exit_i
            /\ \E a \in Argvs, v \in Vnodes : sys_execv(v, a)

ProcNext ==
    \/ Next /\ UNCHANGED execVars
    \/ ExecCall

ProcSpec == ProcInit /\ [][ProcNext]_procVars

-----------------------------------------------------------------------------
(* Properties.                                                               *)

Bytes == 0..255

ProcTypeOK ==
    /\ TypeOK
    /\ as_cur \in as_live
    /\ as_live \subseteq AddrSpaces
    /\ karg \in [KIdx -> Bytes]
    /\ ustack \in {NULL} \cup [sp : 0..USERSTACK, argc : Nat, mem : Seq(Bytes)]

(* The argv the new program finds: the pointer array at sp, read as       *)
(* words of the machine, up to a NULL, each pointing at a NUL-terminated  *)
(* string inside the copied-out block.  An address outside the block      *)
(* reads as -1, which no byte equals.                                      *)
UByte(u, addr) == IF addr - u.sp \in 1..Len(u.mem) - 1 \cup {0}
                  THEN u.mem[addr - u.sp + 1] ELSE -1

UWord(u, addr) ==
    FoldLeft(LAMBDA w, j : 256 * w + UByte(u, addr + j), 0, <<0, 1, 2, 3>>)

RECURSIVE UString(_, _)
UString(u, addr) ==
    IF UByte(u, addr) \in {0, -1} THEN <<>>
    ELSE <<UByte(u, addr)>> \o UString(u, addr + 1)

RECURSIVE UArgv(_, _)
UArgv(u, i) ==
    LET w == UWord(u, u.sp + 4 * i)
    IN IF w = 0 \/ 4 * i >= Len(u.mem) THEN <<>>
       ELSE <<UString(u, w)>> \o UArgv(u, i + 1)

(* After a successful execv the new program's argc and argv, read from    *)
(* its stack, are exactly the strings execv was given: copy_args lays out *)
(* the offsets and padded strings, adjust_kargbuf relocates them to       *)
(* stack_ptr, and the NULL terminator stays NULL.                          *)
ArgvDelivered ==
    ustack # NULL =>
        /\ ustack.argc = Len(exec_args)
        /\ UArgv(ustack, 0) = exec_args
        /\ UWord(ustack, ustack.sp + 4 * ustack.argc) = 0

(* Every return of execv unwinds what it took: the program vnode's        *)
(* reference is dropped on each of the failure paths after vfs_open and   *)
(* on success, and the process owns exactly one address space: as_new is  *)
(* destroyed when execv fails after as_create, as_old when it succeeds.   *)
ExecUnwinds ==
    [][ExecCall => /\ vn_refcount' = vn_refcount
                  /\ as_live' = {as_cur'}]_procVars
====
