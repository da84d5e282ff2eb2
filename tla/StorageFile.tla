---------------------------- MODULE StorageFile ----------------------------
(***************************************************************************)
(* The storage file of a storage_worker (store() and load() of             *)
(* src/dw_node.c).  A file is a record of what the worker and the kernel   *)
(* know of it: `offset', the storage_offset the worker adds up; `pos', the *)
(* offset of the open file, where the next write() or read() is; and       *)
(* `size'.  The two offsets part when a LOAD meets the end of the file.    *)
(***************************************************************************)
EXTENDS Integers

CONSTANTS BlkSize,  \* blk_size, for O_DIRECT
          OFFSETS,  \* the offset of a command is cut to a uint32_t: 2^32
          BUF_SIZE  \* what main() allocates of a file before the threads start

ASSUME FileConstants == /\ BlkSize \in Nat \ {0}
                        /\ OFFSETS \in Nat \ {0}
                        /\ BUF_SIZE \in Nat \ {0}

\* (uint32_t) -1: go on from where the file is.
Automatic == OFFSETS - 1

\* open() with O_TRUNC, then fallocate() of BUF_SIZE bytes, whatever the
\* maximum size is.
NewFile == [offset |-> 0, pos |-> 0, size |-> BUF_SIZE]

RoundUp(n) == ((n + BlkSize - 1) \div BlkSize) * BlkSize

\* What store() makes of the size and the offset of its command.  The sum is
\* an unsigned long; the assignment cuts it to 32 bits again.
StoreBytes(direct, nbytes) == IF direct THEN RoundUp(nbytes) ELSE nbytes
StoreOffset(direct, off) ==
  LET offset == off % OFFSETS
  IN IF direct THEN RoundUp(offset) % OFFSETS ELSE offset

\* Does an automatic STORE of n bytes begin at the start of the file again?
RewindsLate(f, n, max) == f.offset > max \* mutant: n is not counted
Rewinds(f, n, max) == f.offset + n > max

\* store()
AfterStore(f, direct, nbytes, off, max) ==
  LET n == StoreBytes(direct, nbytes)
      to == StoreOffset(direct, off)
      g == IF to # Automatic THEN [f EXCEPT !.offset = to, !.pos = to]
           ELSE IF Rewinds(f, n, max) THEN [f EXCEPT !.offset = 0, !.pos = 0]
           ELSE f
      end == g.pos + n
  IN [offset |-> g.offset + n,
      pos |-> end,
      size |-> IF n > 0 /\ end > g.size THEN end ELSE g.size]

\* Where safe_read() of n bytes leaves a file: it starts over at the end of
\* the file as often as it takes, and gives up on an empty one.
ReadEnd(pos, n, size) ==
  LET left == IF pos < size THEN size - pos ELSE 0
  IN CASE n <= left -> pos + n
       [] n > left /\ size = 0 -> 0
       [] OTHER -> ((n - left - 1) % size) + 1

\* load()
AfterLoad(f, nbytes, off) ==
  LET to == off % OFFSETS
      g == IF to # Automatic THEN [f EXCEPT !.offset = to, !.pos = to] ELSE f
  IN [g EXCEPT !.offset = @ + nbytes,
               !.pos = IF nbytes = 0 THEN g.pos ELSE ReadEnd(g.pos, nbytes, g.size)]

\* A command whose bytes are meant to fit below the maximum size.
Fits(direct, nbytes, off, max) ==
  LET n == StoreBytes(direct, nbytes)
      to == StoreOffset(direct, off)
  IN n + (IF to = Automatic THEN 0 ELSE to) <= max
=============================================================================
