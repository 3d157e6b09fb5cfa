---------------------------- MODULE ProcessPipe ----------------------------
(***************************************************************************)
(* Win32Process::createProcess (src/src/win32utils.cpp): the linker runs   *)
(* the child process with its standard output redirected into a pipe, a    *)
(* reader thread drains the pipe into a callback, and the main thread      *)
(* waits first for the child, then for the reader.                         *)
(*                                                                         *)
(* Three processes take steps: the main thread, the reader thread and the  *)
(* child.  The i-th byte the child writes is the number i; which of them   *)
(* are NUL bytes is remembered, because the reader ends a string there.    *)
(*                                                                         *)
(* The parent keeps its own handle on the write end of the pipe until the  *)
(* reader closes it, so the pipe never breaks: ReadFile on an empty pipe   *)
(* blocks, even when the child is gone.                                    *)
(*                                                                         *)
(* Each system call of the main thread that is checked may fail.  What is  *)
(* thrown then leaves createProcess at once; on its way up it destroys the *)
(* Win32Process, whose destructor waits for the reader.  A failure that    *)
(* ends the whole program is left out: an exception in the reader thread,  *)
(* which nothing catches, and DebugBreak when CreateProcess fails.         *)
(***************************************************************************)
EXTENDS Integers, Sequences

CONSTANTS
  PipeSize,   \* what the pipe holds before a writer blocks
  BufSize,    \* BUFSIZE of readPipe
  MaxOutput   \* bound on what the child writes

ASSUME PipeAssumption ==
  /\ PipeSize \in Nat \ {0} /\ BufSize \in Nat \ {0}
  /\ MaxOutput \in Nat

VARIABLES
  main,       \* what createProcess does next
  reader,     \* what readPipe does next
  child,      \* "unborn", "running" or "exited"
  written,    \* how much the child has written
  nuls,       \* which of these bytes are NUL
  pipe,       \* written but not read
  readBuffer, \* read but not handed to the callback
  delivered,  \* what outputCallback_ has received
  handle,     \* childProcess_: "open", or "closed" but still used
  stdout      \* the standard output of the parent: its own, or the pipe

io == <<written, nuls, pipe, readBuffer, delivered>>
vars == <<main, reader, child, written, nuls, pipe, readBuffer, delivered,
          handle, stdout>>

Init ==
  /\ main = "redirect" /\ reader = "unborn" /\ child = "unborn"
  /\ written = 0 /\ nuls = {} /\ pipe = <<>> /\ readBuffer = <<>> /\ delivered = <<>>
  /\ handle = "none" /\ stdout = "own"
-----------------------------------------------------------------------------
(* The child. *)

ChildWrites ==
  /\ child = "running"
  /\ Len(pipe) < PipeSize
  /\ written < MaxOutput
  /\ written' = written + 1
  /\ pipe' = Append(pipe, written')
  /\ \E nul \in BOOLEAN : nuls' = IF nul THEN nuls \cup {written'} ELSE nuls
  /\ UNCHANGED <<main, reader, child, readBuffer, delivered, handle, stdout>>

ChildExits ==
  /\ child = "running"
  /\ child' = "exited"
  /\ UNCHANGED <<main, reader, io, handle, stdout>>
-----------------------------------------------------------------------------
(* The reader thread: readPipe.  The first peek and testProcess only decide *)
(* how long to sleep and leave nothing behind.                              *)

(* Bug: ReadFile is given no limit. *)
WholePipe == Len(pipe)

(* What one ReadFile takes: all there is, up to the size of the buffer. *)
Chunk == IF Len(pipe) < BufSize THEN Len(pipe) ELSE BufSize

(* Bug: reading begins when the child is done. *)
ReadAfterExit ==
  /\ reader = "read" /\ pipe # <<>> /\ child = "exited"
  /\ readBuffer' = SubSeq(pipe, 1, Chunk)
  /\ pipe' = SubSeq(pipe, Chunk + 1, Len(pipe))
  /\ reader' = "callback"
  /\ UNCHANGED <<main, child, written, nuls, delivered, handle, stdout>>

(* Bug: what does not fit into the buffer is dropped. *)
ReadDropsRest ==
  /\ reader = "read" /\ pipe # <<>>
  /\ readBuffer' = SubSeq(pipe, 1, Chunk)
  /\ pipe' = <<>>
  /\ reader' = "callback"
  /\ UNCHANGED <<main, child, written, nuls, delivered, handle, stdout>>

(* Bug: a full buffer is waited for. *)
ReadFullBuffers ==
  /\ reader = "read" /\ Len(pipe) >= BufSize
  /\ readBuffer' = SubSeq(pipe, 1, Chunk)
  /\ pipe' = SubSeq(pipe, Chunk + 1, Len(pipe))
  /\ reader' = "callback"
  /\ UNCHANGED <<main, child, written, nuls, delivered, handle, stdout>>

(* ReadFile blocks until there is something to read. *)
Read ==
  /\ reader = "read" /\ pipe # <<>>
  /\ readBuffer' = SubSeq(pipe, 1, Chunk)
  /\ pipe' = SubSeq(pipe, Chunk + 1, Len(pipe))
  /\ reader' = "callback"
  /\ UNCHANGED <<main, child, written, nuls, delivered, handle, stdout>>

(* The length of the C string that a sequence of bytes is taken for: up to *)
(* its first NUL or, as readPipe puts one behind them, all of them.        *)
IsCLength(n, bytes) ==
  /\ n \in 0 .. Len(bytes)
  /\ \A i \in 1 .. n : bytes[i] \notin nuls
  /\ n < Len(bytes) => bytes[n + 1] \in nuls
CString(bytes) == SubSeq(bytes, 1, CHOOSE n \in 0 .. Len(bytes) : IsCLength(n, bytes))

(* outputData is made from the buffer without its length. *)
Callback ==
  /\ reader = "callback"
  /\ delivered' = delivered \o CString(readBuffer)
  /\ readBuffer' = <<>>
  /\ reader' = "peek"
  /\ UNCHANGED <<main, child, written, nuls, pipe, handle, stdout>>

(* After a sleep: is there more to read? *)
Peek ==
  /\ reader = "peek"
  /\ reader' = IF pipe = <<>> THEN "test" ELSE "read"
  /\ UNCHANGED <<main, child, io, handle, stdout>>

(* Bug: the child is never taken for active. *)
NeverActive == {FALSE}

(* testProcess.  On a handle that createProcess has closed GetExitCodeProcess *)
(* fails and leaves exitCode uninitialised: either answer can come out.     *)
Active == IF handle = "open" THEN {child = "running"} ELSE BOOLEAN

(* An active child makes the reader block in ReadFile again; otherwise the *)
(* loop ends with bytesLeftToRead = 0, so the "last read" is never made.   *)
TestProcess ==
  /\ reader = "test"
  /\ \E active \in Active : reader' = IF active THEN "read" ELSE "close"
  /\ UNCHANGED <<main, child, io, handle, stdout>>

(* Both ends of the pipe are closed; what is in it is lost. *)
ClosePipe ==
  /\ reader = "close"
  /\ reader' = "done"
  /\ UNCHANGED <<main, child, io, handle, stdout>>
-----------------------------------------------------------------------------
(* The main thread: createProcess. *)

(* SetStdHandle: the pipe becomes the standard output the child inherits. *)
Redirect ==
  /\ main = "redirect"
  /\ main' = "create"
  /\ stdout' = "pipe"
  /\ UNCHANGED <<reader, child, io, handle>>

(* CreatePipe or SetStdHandle fails; or DuplicateHandle or CloseHandle does *)
(* afterwards, and the standard output is left redirected.                 *)
RedirectThrows ==
  /\ main = "redirect"
  /\ main' = "unwinding"
  /\ stdout' \in {"own", "pipe"}
  /\ UNCHANGED <<reader, child, io, handle>>

(* ComSpec is empty: false is returned, with the pipe open and the standard *)
(* output redirected.                                                      *)
Refuse ==
  /\ main = "create"
  /\ main' = "refused"
  /\ UNCHANGED <<reader, child, io, handle, stdout>>

CreateChild ==
  /\ main = "create"
  /\ main' = "startReader"
  /\ child' = "running"
  /\ handle' = "open"
  /\ UNCHANGED <<reader, io, stdout>>

StartReader ==
  /\ main = "startReader"
  /\ main' = "waitChild"
  /\ reader' = "read"
  /\ UNCHANGED <<child, io, handle, stdout>>

(* _beginthreadex fails: nobody will read what the child writes. *)
StartReaderThrows ==
  /\ main = "startReader"
  /\ main' = "unwinding"
  /\ UNCHANGED <<reader, child, io, handle, stdout>>

WaitForChild ==
  /\ main = "waitChild" /\ child = "exited"
  /\ main' = "closeHandle"
  /\ UNCHANGED <<reader, child, io, handle, stdout>>

(* The variable childProcess_ keeps the closed handle. *)
CloseChildHandle ==
  /\ main = "closeHandle"
  /\ main' = "restore"
  /\ handle' = "closed"
  /\ UNCHANGED <<reader, child, io, stdout>>

RestoreStdout ==
  /\ main = "restore"
  /\ main' = "waitReader"
  /\ stdout' = "own"
  /\ UNCHANGED <<reader, child, io, handle>>

(* SetStdHandle fails: the reader is still at work. *)
RestoreThrows ==
  /\ main = "restore"
  /\ main' = "unwinding"
  /\ UNCHANGED <<reader, child, io, handle, stdout>>

WaitForReader ==
  /\ main = "waitReader" /\ reader = "done"
  /\ main' = "returned"
  /\ handle' = "none"
  /\ UNCHANGED <<reader, child, io, stdout>>

(* ~Win32Process waits for the reader, if there is one, and only then lets *)
(* the exception go further up.                                            *)
Unwind ==
  /\ main = "unwinding" /\ reader \in {"unborn", "done"}
  /\ main' = "threw"
  /\ UNCHANGED <<reader, child, io, handle, stdout>>

ChildStep == ChildWrites \/ ChildExits
ReaderStep == Read \/ Callback \/ Peek \/ TestProcess \/ ClosePipe
MainStep == Redirect \/ RedirectThrows \/ Refuse \/ CreateChild \/ StartReader
            \/ StartReaderThrows \/ WaitForChild \/ CloseChildHandle
            \/ RestoreStdout \/ RestoreThrows \/ WaitForReader \/ Unwind

Next == ChildStep \/ ReaderStep \/ MainStep

Spec == Init /\ [][Next]_vars

(* Both threads of the parent are runnable whenever they are not blocked;  *)
(* nothing is assumed of the child, which may run, or be silent, forever.  *)
FairSpec == Spec /\ WF_vars(ReaderStep) /\ WF_vars(MainStep)
-----------------------------------------------------------------------------
(* Properties *)

TypeOK ==
  /\ main \in {"redirect", "create", "startReader", "waitChild", "closeHandle",
               "restore", "waitReader", "returned", "refused", "unwinding", "threw"}
  /\ reader \in {"unborn", "read", "callback", "peek", "test", "close", "done"}
  /\ child \in {"unborn", "running", "exited"}
  /\ written \in 0 .. MaxOutput /\ nuls \subseteq 1 .. written
  /\ pipe \in Seq(Nat) /\ readBuffer \in Seq(Nat) /\ delivered \in Seq(Nat)
  /\ Len(pipe) <= PipeSize /\ Len(readBuffer) <= BufSize
  /\ handle \in {"none", "open", "closed"}
  /\ stdout \in {"own", "pipe"}

(* How much of the output the callback has been given, or should have been. *)
Past == written - Len(readBuffer) - Len(pipe)
IsDelivered(i) == \E k \in 1 .. Len(delivered) : delivered[k] = i

(* What the reader holds, and after it what is left in the pipe, is the    *)
(* end of the child's output, in order and without gaps.                   *)
InTransit ==
  /\ Past \in Nat
  /\ \A i \in 1 .. Len(readBuffer) : readBuffer[i] = Past + i
  /\ \A i \in 1 .. Len(pipe) : pipe[i] = Past + Len(readBuffer) + i

(* The callback received earlier bytes, in order and none of them twice.   *)
InOrder ==
  /\ \A k \in 1 .. Len(delivered) : delivered[k] \in 1 .. Past
  /\ \A k, l \in 1 .. Len(delivered) : k < l => delivered[k] < delivered[l]

(* It received no NUL, and what it did not receive was lost to a NUL less  *)
(* than a buffer before it, with everything in between.                    *)
LostToNul ==
  /\ \A k \in 1 .. Len(delivered) : delivered[k] \notin nuls
  /\ \A i \in 1 .. Past : ~IsDelivered(i) =>
       \E n \in nuls : /\ n <= i /\ i - n < BufSize
                       /\ \A j \in n .. i : ~IsDelivered(j)

(* The output arrives in order.  Two things are lost: what a NUL byte cuts *)
(* off, which is at most the rest of one read, and what is still in the    *)
(* pipe when the reader closes it.                                         *)
Conserved == InTransit /\ InOrder /\ LostToNul

(* The reader does not give up on a child that is still running, so a      *)
(* child never writes into a pipe from which nobody reads any more.        *)
ReaderOutlivesChild == reader \in {"close", "done"} => child = "exited"

(* Why these hold: what the main thread has done so far tells whether the  *)
(* child and the reader exist and whether the handle can be used, so the   *)
(* answer testProcess gives is wrong only when the child is gone.          *)
Failed == main \in {"unwinding", "threw"}
StartsInOrder ==
  /\ ~Failed => (child = "unborn" <=> main \in {"redirect", "create", "refused"})
  /\ ~Failed => (reader = "unborn" <=> main \in {"redirect", "create", "refused",
                                                "startReader"})
  /\ child = "unborn" => reader = "unborn"
HandleValid ==
  /\ main \in {"startReader", "waitChild"} => handle = "open"
  /\ main \in {"closeHandle", "restore", "waitReader", "returned"} => child = "exited"
  /\ Failed /\ reader # "unborn" => child = "exited"

Inv ==
  /\ StartsInOrder /\ HandleValid /\ ReaderOutlivesChild
  /\ reader # "callback" => readBuffer = <<>>
  /\ Conserved

(* A child that waits for room in the pipe gets it, unless the reader      *)
(* could not be started.                                                   *)
WriterUnblocked ==
  Len(pipe) = PipeSize /\ child = "running" ~>
    Len(pipe) < PipeSize \/ child = "exited" \/ (main = "threw" /\ reader = "unborn")

(* The reader waits for output nobody can write any more: createProcess    *)
(* never returns, nor does the destructor that waits in its stead.         *)
Hung == /\ main \in {"waitReader", "unwinding"}
        /\ reader = "read" /\ pipe = <<>> /\ child = "exited"

(* Once the child has exited, createProcess returns with the standard      *)
(* output restored or throws, unless the reader had already gone back to   *)
(* ReadFile on an empty pipe: there is no other way to get stuck.          *)
ReturnsOrHangs ==
  child = "exited" ~> \/ main = "returned" /\ stdout = "own"
                      \/ main = "threw"
                      \/ [](Hung)

(* What the comment "do one last read" announces: when the reader is done  *)
(* nothing is left unread.                                                 *)
PipeDrained == reader = "done" => pipe = <<>>
=============================================================================
