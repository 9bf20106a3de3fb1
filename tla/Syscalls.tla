-------------------------------- MODULE Syscalls ------------------------------
(***************************************************************************)
(* The file system calls: the dispatcher of                                *)
(* kernel/src/x86_64/interrupts/syscall_handler.c on top of the descriptor *)
(* table of kernel/src/ramdisk/fat12.c.  A call enters through an          *)
(* interrupt gate and runs with interrupts disabled, so that it is one     *)
(* step.  Opening a file copies its data; a descriptor reads the copy.     *)
(***************************************************************************)
EXTENDS Fat12

CONSTANTS
  MAX_FDS,      \* the size of the descriptor table
  Lengths,      \* lengths asked for by read
  Offsets,      \* positions asked for by seek
  High          \* the upper halves of 64-bit sizes; only the lower ones are used

ASSUME DescriptorAssumption == MAX_FDS \in Nat \ {0} /\ Lengths \cup Offsets \cup High \subseteq Nat

VARIABLES
  fd_table,     \* descriptor -> [open, data, position]
  call,         \* the latest call: its name, path or descriptor
  ret,          \* its return code, and the data it handed back
  written       \* history: path -> the data of the last write_file that returned OK

sysVars == <<disk, fd_table, call, ret, written>>

SYSCALL_OK == 0
SYSCALL_ERR_INVALID == -1
SYSCALL_ERR_NOT_FOUND == -2
SYSCALL_ERR_READ_FAIL == -3
SYSCALL_ERR_UNKNOWN == -4

NULL == "null"                             \* a null pointer among the arguments
Paths == Names \cup {NULL}
Fds == 0 .. MAX_FDS - 1
FdArguments == -1 .. MAX_FDS               \* one past each end as well
CLOSED == [open |-> FALSE, data |-> <<>>, position |-> 0]
IsOpen(fd) == fd \in Fds /\ fd_table[fd].open

Return(code, data) == ret' = [code |-> code, data |-> data]
Called(name, argument) == call' = [name |-> name, argument |-> argument]
Fails(code) == Return(code, <<>>) /\ UNCHANGED <<disk, fd_table, written>>
File(path) == Entry(disk, Min(Found(disk, path)))

\* SYSCALL_WRITE: text for the terminal, which is not part of this state.
syscall_write(buf) ==
  /\ Called("write", buf)
  /\ Fails(IF buf = NULL THEN SYSCALL_ERR_INVALID ELSE SYSCALL_OK)

\* "size" is checked at 64 bits and used at 32.  The result of write_file is not
\* seen: the history records what the caller was told, for sizes below 2^32.
syscall_write_file(path, data, high) ==
  /\ Called("write_file", path)
  /\ \/ (path = NULL \/ (Len(data) = 0 /\ high = 0)) /\ Fails(SYSCALL_ERR_INVALID)
     \/ /\ path # NULL /\ ~ (Len(data) = 0 /\ high = 0)
        /\ write_file(path, data)
        /\ Return(SYSCALL_OK, <<>>)
        /\ written' = [p \in (DOMAIN written \ {path}) \cup (IF high = 0 THEN {path} ELSE {}) |->
                         IF p = path THEN data ELSE written[p]]
        /\ UNCHANGED fd_table

syscall_read_file(path) ==
  /\ Called("read_file", path)
  /\ \/ path = NULL /\ Fails(SYSCALL_ERR_INVALID)
     \/ path # NULL /\ Found(disk, path) = {} /\ Fails(SYSCALL_ERR_NOT_FOUND)
     \/ /\ path # NULL /\ Found(disk, path) # {}
        /\ IF File(path).size = 0 THEN Fails(SYSCALL_ERR_READ_FAIL)
           ELSE /\ \E g \in Garbage : Return(SYSCALL_OK, read_file(disk, File(path), g))
                /\ UNCHANGED <<disk, fd_table, written>>

\* open_file takes the lowest free descriptor before it looks for the file.
FreeFds_Any == Fds                         \* mutant: in use or not
FreeFds == {fd \in Fds : ~ fd_table[fd].open}

open_file(path) ==
  /\ Called("open", path)
  /\ \/ path = NULL /\ Fails(SYSCALL_ERR_INVALID)
     \/ path # NULL /\ FreeFds = {} /\ Fails(-1)
     \/ path # NULL /\ FreeFds # {} /\ Found(disk, path) = {} /\ Fails(-2)
     \/ /\ path # NULL /\ FreeFds # {} /\ Found(disk, path) # {}
        /\ IF File(path).size = 0 THEN Fails(-3)
           ELSE /\ \E g \in Garbage :
                     fd_table' = [fd_table EXCEPT ![Min(FreeFds)] =
                       [open |-> TRUE, data |-> read_file(disk, File(path), g), position |-> 0]]
                /\ Return(Min(FreeFds), <<>>)
                /\ UNCHANGED <<disk, written>>

\* The copy is freed; the position of a closed descriptor is never read again.
close_file(fd) ==
  /\ Called("close", fd)
  /\ fd_table' = IF IsOpen(fd) THEN [fd_table EXCEPT ![fd] = CLOSED] ELSE fd_table
  /\ Return(SYSCALL_OK, <<>>)
  /\ UNCHANGED <<disk, written>>

\* What is left of the copy, at most len units of it.
ToRead(f, len) == Min({len, Len(f.data) - f.position})

read_file_fd(fd, len) ==
  /\ Called("read", fd)
  /\ \/ (~ IsOpen(fd) \/ len = 0) /\ Fails(-1)
     \/ /\ IsOpen(fd) /\ len # 0
        /\ LET f == fd_table[fd]
               n == ToRead(f, len)
           IN  /\ Return(n, SubSeq(f.data, f.position + 1, f.position + n))
               /\ fd_table' = [fd_table EXCEPT ![fd].position = @ + n]
        /\ UNCHANGED <<disk, written>>

Beyond_OffByOne(f, position) == position > Len(f.data) + 1      \* mutant
Beyond(f, position) == position > Len(f.data)

seek_file(fd, position) ==
  /\ Called("seek", fd)
  /\ \/ ~ IsOpen(fd) /\ Fails(-1)
     \/ IsOpen(fd) /\ Beyond(fd_table[fd], position) /\ Fails(-2)
     \/ /\ IsOpen(fd) /\ ~ Beyond(fd_table[fd], position)
        /\ Return(0, <<>>)
        /\ fd_table' = [fd_table EXCEPT ![fd].position = position]
        /\ UNCHANGED <<disk, written>>

tell_file(fd) ==
  /\ Called("tell", fd)
  /\ Fails(IF IsOpen(fd) THEN fd_table[fd].position ELSE 0)

\* Any other number.
Unknown == Called("unknown", NULL) /\ Fails(SYSCALL_ERR_UNKNOWN)

SysInit ==
  /\ Init
  /\ fd_table = [fd \in Fds |-> CLOSED]
  /\ call = [name |-> "none", argument |-> NULL]
  /\ ret = [code |-> SYSCALL_OK, data |-> <<>>]
  /\ written = [p \in {} |-> <<>>]

syscall_handler ==
  \/ \E path \in Paths :
       \/ \E data \in Contents, high \in High : syscall_write_file(path, data, high)
       \/ syscall_write(path)
       \/ syscall_read_file(path)
       \/ open_file(path)
  \/ \E fd \in FdArguments :
       \/ close_file(fd)
       \/ \E len \in Lengths : read_file_fd(fd, len)
       \/ \E position \in Offsets : seek_file(fd, position)
       \/ tell_file(fd)
  \/ Unknown

SysSpec == SysInit /\ [][syscall_handler]_sysVars

-----------------------------------------------------------------------------
\* The position of an open descriptor lies in its data, so that "size - position"
\* (fat12.c, read_file_fd), an unsigned subtraction, never wraps around.
PositionInside ==
  /\ DOMAIN fd_table = Fds
  /\ \A fd \in Fds : fd_table[fd].position \in 0 .. Len(fd_table[fd].data)

\* "Reads an entire file into memory": read_file hands back the data of the last
\* write to that path that was answered with SYSCALL_OK.
ReadBack ==
  call.name = "read_file" /\ call.argument \in DOMAIN written =>
    ret = [code |-> SYSCALL_OK, data |-> written[call.argument]]

\* A descriptor holds the data its file had when it was opened, whatever is written
\* to the file or opened and closed beside it.
DescriptorsAreSnapshots ==
  [][\A fd \in Fds :
       /\ fd_table'[fd].open /\ fd_table[fd].open => fd_table'[fd].data = fd_table[fd].data
       /\ fd_table'[fd].open /\ ~ fd_table[fd].open /\ call'.argument \in DOMAIN written
            => fd_table'[fd].data = written[call'.argument]]_sysVars

=============================================================================
