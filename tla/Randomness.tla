----------------------------- MODULE Randomness -----------------------------
(***************************************************************************)
(* rand_bytes of randomness_os.c, for the two sources of a Linux system:   *)
(* the system call, which neither blocks nor is repeated, and the device,  *)
(* whose opening and reading are repeated when interrupted.  The buffer is *)
(* what of it has been written, from its start.                            *)
(***************************************************************************)
EXTENDS Integers

Sources == {"getrandom", "device"}

VARIABLES
    source,     \* which of the two the library was built for
    at,         \* where the call is
    len,        \* length of the buffer
    filled,     \* bytes of it written
    fd,         \* the descriptor of the device
    errno,      \* of the call that failed last
    ret         \* what rand_bytes returned

randomVars == <<source, at, len, filled, fd, errno, ret>>

RandomInit ==
    /\ source \in Sources
    /\ at = "idle"
    /\ len = 0
    /\ filled = 0
    /\ fd = "closed"
    /\ errno = "none"
    /\ ret = 0

Returns(result) == at' = "returned" /\ ret' = result

rand_bytes(n) ==
    /\ at \in {"idle", "returned"}
    /\ at' = IF source = "getrandom" THEN "getrandom" ELSE "open"
    /\ len' = n
    /\ filled' = 0
    /\ UNCHANGED <<source, fd, errno, ret>>

(* The call fails, or writes all of the buffer or less.                    *)
Getrandom ==
    /\ at = "getrandom"
    /\ \E got \in -1 .. len :
        /\ filled' = IF got > 0 THEN got ELSE 0
        /\ Returns(IF got = len THEN 0 ELSE -1)
    /\ UNCHANGED <<source, len, fd, errno>>

Open ==
    /\ at = "open"
    /\ fd' = "open"
    /\ at' = "ioctl"
    /\ UNCHANGED <<source, len, filled, errno, ret>>

OpenFails ==
    /\ at = "open"
    /\ errno' \in {"EINTR", "ENOENT"}
    /\ at' = "openFailed"
    /\ UNCHANGED <<source, len, filled, fd, ret>>

OpenAgain ==
    /\ at = "openFailed"
    /\ IF errno = "EINTR" THEN at' = "open" /\ UNCHANGED ret ELSE Returns(-1)
    /\ UNCHANGED <<source, len, filled, fd, errno>>

(* The device must say how much entropy it has.  Variant: if it does not,   *)
(* it stays open.                                                          *)
IoctlKeepsOpen ==
    /\ at = "ioctl"
    /\ (at' = "read" /\ UNCHANGED ret) \/ Returns(-1)
    /\ UNCHANGED <<source, len, filled, fd, errno>>

Ioctl ==
    /\ at = "ioctl"
    /\ \/ at' = "read" /\ UNCHANGED <<fd, ret>>
       \/ Returns(-1) /\ fd' = "closed"
    /\ UNCHANGED <<source, len, filled, errno>>

(* What was read is counted.  Variant: only the last time.                 *)
ReadFromStart ==
    /\ at = "read" /\ filled < len
    /\ \E got \in 0 .. len - filled : filled' = got
    /\ UNCHANGED <<source, at, len, fd, errno, ret>>

Read ==
    /\ at = "read" /\ filled < len
    /\ \E got \in 0 .. len - filled : filled' = filled + got
    /\ UNCHANGED <<source, at, len, fd, errno, ret>>

ReadFails ==
    /\ at = "read" /\ filled < len
    /\ errno' \in {"EAGAIN", "EINTR", "EIO"}
    /\ at' = "readFailed"
    /\ UNCHANGED <<source, len, filled, fd, ret>>

ReadAgain ==
    /\ at = "readFailed"
    /\ IF errno \in {"EAGAIN", "EINTR"} THEN at' = "read" /\ UNCHANGED <<fd, ret>>
       ELSE Returns(-1) /\ fd' = "closed"
    /\ UNCHANGED <<source, len, filled, errno>>

ReadAll ==
    /\ at = "read" /\ filled = len
    /\ fd' = "closed"
    /\ Returns(0)
    /\ UNCHANGED <<source, len, filled, errno>>

RandomNext ==
    \/ Getrandom \/ Open \/ OpenFails \/ OpenAgain \/ Ioctl
    \/ Read \/ ReadFails \/ ReadAgain \/ ReadAll

(* The code goes on, and a call that is made again and again is not         *)
(* interrupted, and does not deliver nothing, every time.                   *)
RandomFairness ==
    /\ WF_randomVars(RandomNext)
    /\ SF_randomVars(Open)
    /\ SF_randomVars(Read /\ filled' > filled)
===============================================================================
