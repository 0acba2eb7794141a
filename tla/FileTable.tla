----------------------------- MODULE FileTable -----------------------------
(***************************************************************************)
(* The descriptor table of one process and the open files and vnodes it   *)
(* refers to: sys_open/k_open, sys_dup2, sys_read, sys_write, sys_close   *)
(* and sys_lseek of kern/syscall/file_syscall.c, get_file, des_descriptor, *)
(* des_file and close_all_f of kern/io/file.c (close_all_f is what        *)
(* sys_exit calls), and the reference counts of kern/vfs/vnode.c.         *)
(*                                                                         *)
(* A process runs one thread, so each system call is one step; the loop   *)
(* of close_all_f is one step per descriptor.  A struct file is a member  *)
(* of Files (kmalloc'd memory, reused once freed).  Offsets, buffers and  *)
(* file contents are data no property tells apart: read, write and lseek  *)
(* matter for the memory they touch.                                       *)
(*                                                                         *)
(* Code outside the repository is modelled by its contract: vfs_open      *)
(* returns its vnode with one more reference (vnode_init for a vnode not  *)
(* in memory), vfs_close is VOP_DECREF, fd_attach stores the file in some *)
(* free slot or fails when none is free, fd_detach clears the slot, and   *)
(* the table's fd_ofiles has OPEN_MAX (= MAX_OPEN_FILES) slots.           *)
(*                                                                         *)
(* Touching freed memory (a destroyed lock, a freed struct file, a        *)
(* reclaimed vnode), reading past fd_ofiles, or failing a KASSERT sets    *)
(* fault; the process goes no further.                                     *)
(***************************************************************************)
EXTENDS Naturals

CONSTANTS OPEN_MAX,
          Files,      \* the memory a struct file can be kmalloc'd in
          Vnodes,     \* the files the process may open (one vnode each)
          OpenFlags,  \* the flags sys_open is called with
          FdArgs,     \* the descriptors the calls are given (negative ones
                      \* are refused alike by every call)
          Whences,    \* the whence values sys_lseek is called with
          CanFail,    \* whether vfs_open, kmalloc, lock_create, VOP_STAT may fail
          MaxCalls,   \* the number of system calls the process makes
          NULL

ASSUME /\ OPEN_MAX \in Nat \ {0}
       /\ NULL \notin Files \cup Vnodes
       /\ CanFail \in BOOLEAN
       /\ FdArgs \subseteq Nat

O_RDONLY == 0
O_WRONLY == 1
O_RDWR == 2
O_ACCMODE == 3
O_APPEND == 32
SEEK_SET == 0
SEEK_CUR == 1
SEEK_END == 2

Fds == 0..OPEN_MAX - 1


Faults == {"none", "freed_lock", "freed_file", "freed_vnode", "out_of_bounds"}

VARIABLES fd_ofiles,   \* p_fd->fd_ofiles
          fd_lk,       \* p_fd->fd_lk: "live" or "freed"
          allocated,   \* the struct files kmalloc'd and not freed
          f_refcount,
          f_vnode,
          f_oflags,
          vn_refcount, \* vn_refcount of each vnode; 0 when not in memory
          exit_i,      \* the loop index of close_all_f, NULL before sys_exit
          fault,
          calls

stateVars == <<fd_ofiles, fd_lk, allocated, f_refcount, f_vnode, f_oflags,
               vn_refcount>>
vars == <<stateVars, exit_i, fault, calls>>

-----------------------------------------------------------------------------
(* Vnode reference counts (vnode.c).                                        *)

vnode_init(rc, v) == [rc EXCEPT ![v] = 1]

vnode_incref(rc, v) == [rc EXCEPT ![v] = @ + 1]

vnode_cleanup(rc, v) == [rc EXCEPT ![v] = 0]

(* The last reference is not dropped but handed to VOP_RECLAIM, which     *)
(* frees the vnode through vnode_cleanup.                                  *)
vnode_decref(rc, v) ==
    IF rc[v] > 1 THEN [rc EXCEPT ![v] = @ - 1] ELSE vnode_cleanup(rc, v)

(* vnode_check, run before every VOP: the vnode is still in memory.       *)
VopOk(rc, v) == rc[v] > 0

vfs_open(rc, v) == IF VopOk(rc, v) THEN vnode_incref(rc, v) ELSE vnode_init(rc, v)

vfs_close(rc, v) == vnode_decref(rc, v)

-----------------------------------------------------------------------------
Returns == UNCHANGED <<stateVars, fault>>

Fault(k) == fault' = k /\ UNCHANGED stateVars

valid_flags(flags) == flags % (O_ACCMODE + 1) \in {O_RDONLY, O_WRONLY, O_RDWR}

IsAppend(flags) == (flags \div O_APPEND) % 2 = 1

(* des_file of a file k_open never published, after k_open has already   *)
(* called vfs_close(vn) itself: des_file closes the vnode a second time.  *)
OpenUnwind(rc1, v) ==
    LET rc2 == vfs_close(rc1, v)
    IN \/ /\ ~VopOk(rc2, v)
          /\ Fault("freed_vnode")
       \/ /\ VopOk(rc2, v)
          /\ vn_refcount' = vfs_close(rc2, v)
          /\ UNCHANGED <<fd_ofiles, fd_lk, allocated, f_refcount, f_vnode,
                         f_oflags, fault>>

(* k_open: vfs_open, kmalloc the struct file, lock_create, the O_APPEND   *)
(* VOP_STAT, then fd_attach under F_LOCK, f_refcount++ and VOP_INCREF.    *)
(* On a lock_create failure the code frees res and goes on using it.      *)
k_open(v, flags) ==
    LET rc1 == vfs_open(vn_refcount, v) IN
    \/ CanFail /\ Returns
    \/ /\ CanFail \/ allocated = Files
       /\ vn_refcount' = rc1
       /\ UNCHANGED <<fd_ofiles, fd_lk, allocated, f_refcount, f_vnode,
                      f_oflags, fault>>
    \/ \E f \in Files \ allocated :
          \/ CanFail /\ Fault("freed_file")
          \/ CanFail /\ IsAppend(flags) /\ OpenUnwind(rc1, v)
          \/ (\A fd \in Fds : fd_ofiles[fd] # NULL) /\ OpenUnwind(rc1, v)
          \/ \E fd \in Fds :
                /\ fd_ofiles[fd] = NULL
                /\ fd_ofiles' = [fd_ofiles EXCEPT ![fd] = f]
                /\ allocated' = allocated \cup {f}
                /\ f_refcount' = [f_refcount EXCEPT ![f] = 1]
                /\ f_vnode' = [f_vnode EXCEPT ![f] = v]
                /\ f_oflags' = [f_oflags EXCEPT ![f] = flags]
                /\ vn_refcount' = vnode_incref(rc1, v)
                /\ UNCHANGED <<fd_lk, fault>>

(* sys_open: valid_flags, then k_open (copyinstr only fails with EFAULT). *)
sys_open(v, flags) ==
    \/ ~valid_flags(flags) /\ Returns
    \/ valid_flags(flags) /\ k_open(v, flags)

(* sys_dup2: after the checks, under fd_lk, fd_ofiles[newfd] takes the    *)
(* file of oldfd and its f_refcount is incremented (a uint16_t).  When    *)
(* newfd was open, the code then decrements temp->fd_ofiles[oldfd], the   *)
(* same file again, and releases fd_lk: its count is back where it was,   *)
(* so the branch that destroys the table (lines 139-145) is never taken.  *)
(* The file newfd referred to is simply overwritten.                       *)
sys_dup2(oldfd, newfd) ==
    \/ (oldfd \notin Fds \/ newfd \notin Fds) /\ Returns
    \/ /\ oldfd \in Fds /\ newfd \in Fds
       /\ \/ fd_ofiles[oldfd] = NULL /\ Returns
          \/ fd_ofiles[oldfd] # NULL /\ oldfd = newfd /\ Returns
          \/ LET g == fd_ofiles[oldfd]
                 newfdflag == fd_ofiles[newfd] # NULL
             IN /\ g # NULL /\ oldfd # newfd
                /\ \/ fd_lk = "freed" /\ Fault("freed_lock")
                   \/ /\ fd_lk = "live"
                      /\ fd_ofiles' = [fd_ofiles EXCEPT ![newfd] = g]
                      /\ f_refcount' = IF newfdflag THEN f_refcount
                                       ELSE [f_refcount EXCEPT ![g] = (@ + 1) % 2^16]
                      /\ UNCHANGED <<fd_lk, allocated, f_vnode, f_oflags,
                                     vn_refcount, fault>>

(* sys_read and sys_write: the range check lets fd = OPEN_MAX and          *)
(* OPEN_MAX + 1 through, and fd_ofiles[fd] is then read past the array:   *)
(* either it reads as NULL (EBADF) or as a pointer that is followed.      *)
(* Otherwise: EBADF on an empty slot, EACCES when f_oflags equals the     *)
(* refused mode, then fd_lk is taken around VOP_READ / VOP_WRITE.          *)
ReadWrite(fd, refused) ==
    \/ fd > OPEN_MAX + 1 /\ Returns
    \/ fd \in OPEN_MAX..OPEN_MAX + 1 /\ (Returns \/ Fault("out_of_bounds"))
    \/ /\ fd \in Fds
       /\ LET g == fd_ofiles[fd] IN
          \/ g = NULL /\ Returns
          \/ g # NULL /\ g \notin allocated /\ Fault("freed_file")
          \/ g \in allocated /\ f_oflags[g] = refused /\ Returns
          \/ /\ g \in allocated /\ f_oflags[g] # refused
             /\ \/ fd_lk = "freed" /\ Fault("freed_lock")
                \/ fd_lk = "live" /\ ~VopOk(vn_refcount, f_vnode[g]) /\ Fault("freed_vnode")
                \/ fd_lk = "live" /\ VopOk(vn_refcount, f_vnode[g]) /\ Returns

sys_read(fd) == ReadWrite(fd, O_WRONLY)

sys_write(fd) == ReadWrite(fd, O_RDONLY)

(* sys_close: under fd_lk, f_refcount--.  At zero: vfs_close, release and *)
(* lock_destroy fd_lk (the table's lock), kfree the file and clear the    *)
(* slot.  Above zero: release; the slot keeps the file.  (The KASSERT     *)
(* f_refcount > 0 holds: an allocated file in a slot has a count.)        *)
sys_close(fd) ==
    \/ fd > OPEN_MAX + 1 /\ Returns
    \/ fd \in OPEN_MAX..OPEN_MAX + 1 /\ (Returns \/ Fault("out_of_bounds"))
    \/ /\ fd \in Fds
       /\ LET g == fd_ofiles[fd] IN
          \/ g = NULL /\ Returns
          \/ g # NULL /\ fd_lk = "freed" /\ Fault("freed_lock")
          \/ /\ g # NULL /\ fd_lk = "live" /\ f_refcount[g] > 1
             /\ f_refcount' = [f_refcount EXCEPT ![g] = @ - 1]
             /\ UNCHANGED <<fd_ofiles, fd_lk, allocated, f_vnode, f_oflags,
                            vn_refcount, fault>>
          \/ /\ g # NULL /\ fd_lk = "live" /\ f_refcount[g] = 1
             /\ \/ ~VopOk(vn_refcount, f_vnode[g]) /\ Fault("freed_vnode")
                \/ /\ VopOk(vn_refcount, f_vnode[g])
                   /\ vn_refcount' = vfs_close(vn_refcount, f_vnode[g])
                   /\ fd_lk' = "freed"
                   /\ allocated' = allocated \ {g}
                   /\ f_refcount' = [f_refcount EXCEPT ![g] = 0]
                   /\ fd_ofiles' = [fd_ofiles EXCEPT ![fd] = NULL]
                   /\ UNCHANGED <<f_vnode, f_oflags, fault>>

(* get_file returns 0: fd passes the range check against MAX_OPEN_FILES,  *)
(* FD_LOCK is taken and the slot is in use; the file is F_LOCKed, FD_LOCK *)
(* released, and the file returned locked.  (Before sys_exit,            *)
(* while fd_lk is live every file in a slot is allocated: the one call    *)
(* that frees a file in a slot, sys_close, destroys fd_lk with it.  So    *)
(* sys_dup2 and sys_close too reach a freed file only via a freed fd_lk.) *)
get_file(fd) == fd \in Fds /\ fd_lk = "live" /\ fd_ofiles[fd] # NULL

(* The other returns of get_file: EBADF out of range or on an empty slot, *)
(* and FD_LOCK on a destroyed fd_lk.                                       *)
get_file_error(fd) ==
    \/ fd \notin Fds /\ Returns
    \/ fd \in Fds /\ fd_lk = "freed" /\ Fault("freed_lock")
    \/ fd \in Fds /\ fd_lk = "live" /\ fd_ofiles[fd] = NULL /\ Returns

(* sys_lseek once get_file returned the locked file: SEEK_SET, SEEK_CUR   *)
(* and SEEK_END reach the vnode (VOP_STAT, VOP_TRYSEEK), any other whence *)
(* is EINVAL; every return releases f_lk.                                  *)
LseekBody(whence, g) ==
    \/ /\ whence \in {SEEK_SET, SEEK_CUR, SEEK_END}
       /\ \/ ~VopOk(vn_refcount, f_vnode[g]) /\ Fault("freed_vnode")
          \/ VopOk(vn_refcount, f_vnode[g]) /\ Returns
    \/ whence \notin {SEEK_SET, SEEK_CUR, SEEK_END} /\ Returns

sys_lseek(fd, whence) ==
    \/ get_file_error(fd)
    \/ get_file(fd) /\ LseekBody(whence, fd_ofiles[fd])

(* des_file: KASSERT(f_refcount == 0), vfs_close the vnode, lock_destroy  *)
(* and kfree; given the vnode counts before the vfs_close.                 *)
des_file(f, rc) ==
    \/ /\ ~VopOk(rc, f_vnode[f])
       /\ fault' = "freed_vnode"
       /\ UNCHANGED <<vn_refcount, allocated>>
    \/ /\ VopOk(rc, f_vnode[f])
       /\ vn_refcount' = vfs_close(rc, f_vnode[f])
       /\ allocated' = allocated \ {f}
       /\ UNCHANGED fault

(* des_descriptor(p, fd) as close_all_f calls it on a slot in use:        *)
(* get_file locks the file, fd_detach clears the slot, f_refcount-- and   *)
(* VOP_DECREF, then des_file when the count reached zero.                 *)
des_descriptor(fd) ==
    LET g == fd_ofiles[fd]
        v == f_vnode[g]
    IN \/ g \notin allocated /\ Fault("freed_file")
       \/ g \in allocated /\ ~VopOk(vn_refcount, v) /\ Fault("freed_vnode")
       \/ /\ g \in allocated /\ VopOk(vn_refcount, v)
          /\ fd_ofiles' = [fd_ofiles EXCEPT ![fd] = NULL]
          /\ f_refcount' = [f_refcount EXCEPT ![g] = @ - 1]
          /\ \/ /\ f_refcount[g] > 1
                /\ vn_refcount' = vnode_decref(vn_refcount, v)
                /\ UNCHANGED <<allocated, fault>>
             \/ /\ f_refcount[g] = 1
                /\ des_file(g, vnode_decref(vn_refcount, v))
          /\ UNCHANGED <<fd_lk, f_vnode, f_oflags>>

(* Fault-injected variant: the loop runs to i <= MAX_OPEN_FILES; the slot *)
(* past the end reads as NULL.                                             *)
close_all_f_past ==
    /\ exit_i \in 0..OPEN_MAX
    /\ fault = "none"
    /\ \/ exit_i \notin Fds /\ Returns
       \/ exit_i \in Fds /\ fd_ofiles[exit_i] = NULL /\ Returns
       \/ exit_i \in Fds /\ fd_ofiles[exit_i] # NULL /\ des_descriptor(exit_i)
    /\ exit_i' = IF fault' = "none" THEN exit_i + 1 ELSE exit_i
    /\ UNCHANGED calls

(* Fault-injected variant: the loop stops one slot short.                 *)
close_all_f_short ==
    /\ exit_i \in 0..OPEN_MAX - 2
    /\ fault = "none"
    /\ \/ fd_ofiles[exit_i] = NULL /\ Returns
       \/ fd_ofiles[exit_i] # NULL /\ des_descriptor(exit_i)
    /\ exit_i' = CASE fault' # "none" -> exit_i
                  [] exit_i = OPEN_MAX - 2 -> OPEN_MAX
                  [] OTHER -> exit_i + 1
    /\ UNCHANGED calls

(* One iteration of the loop of close_all_f: a slot in use is closed with *)
(* des_descriptor between FD_UNLOCK and FD_LOCK.  After the last slot the  *)
(* loop ends (exit_i = OPEN_MAX) and close_all_f returns 0 to sys_exit.    *)
close_all_f ==
    /\ exit_i \in Fds
    /\ fault = "none"
    /\ \/ fd_ofiles[exit_i] = NULL /\ Returns
       \/ fd_ofiles[exit_i] # NULL /\ des_descriptor(exit_i)
    /\ exit_i' = IF fault' = "none" THEN exit_i + 1 ELSE exit_i
    /\ UNCHANGED calls

(* sys_exit calls close_all_f, which first takes FD_LOCK.                 *)
sys_exit ==
    \/ fd_lk = "freed" /\ Fault("freed_lock") /\ UNCHANGED exit_i
    \/ fd_lk = "live" /\ exit_i' = 0 /\ Returns

-----------------------------------------------------------------------------

(* The table fd_create leaves: every slot empty, fd_lk created.            *)
Init ==
    /\ fd_ofiles = [fd \in Fds |-> NULL]
    /\ fd_lk = "live"
    /\ allocated = {}
    /\ f_refcount = [f \in Files |-> 0]
    /\ f_vnode = [f \in Files |-> NULL]
    /\ f_oflags = [f \in Files |-> O_RDONLY]
    /\ vn_refcount = [v \in Vnodes |-> 0]
    /\ exit_i = NULL
    /\ fault = "none"
    /\ calls = 0

Running == fault = "none" /\ exit_i = NULL /\ calls < MaxCalls

Call ==
    \/ \E v \in Vnodes, flags \in OpenFlags : sys_open(v, flags)
    \/ \E oldfd, newfd \in FdArgs : sys_dup2(oldfd, newfd)
    \/ \E fd \in FdArgs : sys_read(fd) \/ sys_write(fd) \/ sys_close(fd)
    \/ \E fd \in FdArgs, whence \in Whences : sys_lseek(fd, whence)

Next ==
    \/ Running /\ calls' = calls + 1 /\ Call /\ UNCHANGED exit_i
    \/ Running /\ calls' = calls + 1 /\ sys_exit
    \/ close_all_f

Spec == Init /\ [][Next]_vars

-----------------------------------------------------------------------------
(* Properties.                                                               *)

TypeOK ==
    /\ fd_ofiles \in [Fds -> Files \cup {NULL}]
    /\ fd_lk \in {"live", "freed"}
    /\ allocated \subseteq Files
    /\ f_refcount \in [Files -> 0..2^16 - 1]
    /\ f_vnode \in [Files -> Vnodes \cup {NULL}]
    /\ f_oflags \in [Files -> OpenFlags \cup {O_RDONLY}]
    /\ vn_refcount \in [Vnodes -> Nat]
    /\ exit_i \in 0..OPEN_MAX \cup {NULL}
    /\ fault \in Faults
    /\ calls \in 0..MaxCalls

(* When close_all_f returns to sys_exit, every descriptor of the process  *)
(* has been closed: the loop reaches the last slot, MAX_OPEN_FILES - 1.   *)
ExitLeavesTableEmpty ==
    exit_i = OPEN_MAX => \A fd \in Fds : fd_ofiles[fd] = NULL

(* Every system call of the file layer touches only live memory and keeps *)
(* its KASSERTs: no destroyed lock is acquired, no freed struct file or   *)
(* reclaimed vnode is used, fd_ofiles is never read past its end.          *)
SyscallsDefined == fault = "none"
====
