-------------------------- MODULE RobustSyncWrite --------------------------
(***************************************************************************)
(* RobustSyncWrite (utils/robust_read_write): writes exactly Size bytes to *)
(* a non-blocking descriptor with poll() and write(), until all of them    *)
(* are in the kernel, the timeout passes, or the peer goes away.           *)
(*                                                                         *)
(* The peer drains the kernel's buffer, leaves or resets at any moment,    *)
(* also between the snapshot poll() reports and the write() it leads to.   *)
(* Nothing in the program ignores or handles SIGPIPE, so a write() to a    *)
(* peer that is gone may end the process instead of returning EPIPE.       *)
(*                                                                         *)
(* Bytes are named by their position in the buffer `from`, 1, 2, 3...      *)
(***************************************************************************)
EXTENDS Timer, Sequences

CONSTANTS Size,       \* from.size()
          Timeout,    \* in milliseconds
          Capacity,   \* what the kernel buffers for the peer
          MaxFaults,  \* bound: interrupted calls and spurious wake-ups
          MaxNow      \* bound: ticks during one call, the waits in poll() apart

ASSUME WriteAssumption ==
  /\ Size \in Nat /\ Timeout \in Nat /\ Capacity \in Nat
  /\ MaxFaults \in Nat /\ MaxNow \in Nat
  /\ Timeout =< MaxInt  \* so that poll() waits for what is left

VARIABLES
  pc,             \* "loop", "polling", "polled", "done", or "killed" by SIGPIPE
  nBytesWritten,
  remaining,      \* remainingTime, in milliseconds
  wakeAt,         \* clock reading at which the pending poll() gives up
  revents,        \* what the last poll() reported
  outcome,        \* alternative of the returned variant
  kind,           \* what `fd` is
  peer,           \* the other end of `fd`
  wire,           \* the bytes the kernel accepted, in order
  room,           \* how many more it accepts now
  now,            \* clock
  faults          \* faults the kernel may still produce

writer == <<nBytesWritten, remaining, wakeAt, revents, outcome>>
env    == <<kind, peer, now>>
vars   == <<pc, writer, env, wire, room, faults>>

WriteFailures == {"OnSystemError", "OnTimeout", "OnPollerrOrPollhup"}

---------------------------------------------------------------------------
(* What poll() reports of the descriptor in the present state.             *)

FdEvents ==
  CASE kind = "pipe"     -> (IF room > 0 THEN {"OUT"} ELSE {})
                            \cup (IF peer = "closed" THEN {"ERR"} ELSE {})
    [] kind = "socket"   -> (IF room > 0 \/ peer = "reset" THEN {"OUT"} ELSE {})
                            \cup (IF peer = "reset" THEN {"ERR", "HUP"} ELSE {})
    [] kind = "notOpen"  -> {"NVAL"}
    [] kind = "negative" -> {}   \* poll() skips a negative descriptor

\* The next write() finds nobody who could ever read the data.
Gone == (kind = "pipe" /\ peer = "closed") \/ peer = "reset"

---------------------------------------------------------------------------
(* Steps of the writer.                                                    *)

Return(result) ==
  /\ pc' = "done"
  /\ outcome' = result
  /\ UNCHANGED <<nBytesWritten, remaining, wakeAt, revents>>

\* Mutant: all the elapsed time is subtracted again from what was left.
ContinueSubtractsAgain ==
  /\ pc' = "loop"
  /\ remaining' = CalcRemainingTime(remaining, now)
  /\ UNCHANGED <<wakeAt, revents, outcome>>

\* `continue` and the end of the body both run the increment of the for.
Continue ==
  /\ pc' = "loop"
  /\ remaining' = CalcRemainingTime(Timeout, now)
  /\ UNCHANGED <<wakeAt, revents, outcome>>

Fault == faults > 0 /\ faults' = faults - 1

\* Mutant: leaves the loop when the kernel refused to take more.
LoopTestRoom ==
  /\ pc = "loop"
  /\ IF nBytesWritten = Size \/ room = 0
     THEN Return("OnSuccess")
     ELSE /\ pc' = "polling"
          /\ wakeAt' = now + remaining * TicksPerMs
          /\ UNCHANGED <<nBytesWritten, remaining, revents, outcome>>
  /\ UNCHANGED <<env, wire, room, faults>>

\* The condition of the for: return, or enter poll() with the time left.
LoopTest ==
  /\ pc = "loop"
  /\ IF nBytesWritten = Size
     THEN Return("OnSuccess")
     ELSE /\ pc' = "polling"
          /\ wakeAt' = now + remaining * TicksPerMs
          /\ UNCHANGED <<nBytesWritten, remaining, revents, outcome>>
  /\ UNCHANGED <<env, wire, room, faults>>

PollReady ==
  /\ pc = "polling"
  /\ FdEvents # {}
  /\ revents' = FdEvents
  /\ pc' = "polled"
  /\ UNCHANGED <<nBytesWritten, remaining, wakeAt, outcome, env, wire, room, faults>>

\* poll() reports room that is not there (the case of the comment in the code).
PollSpurious ==
  /\ pc = "polling"
  /\ kind \in {"pipe", "socket"}
  /\ Fault
  /\ revents' = {"OUT"}
  /\ pc' = "polled"
  /\ UNCHANGED <<nBytesWritten, remaining, wakeAt, outcome, env, wire, room>>

PollTimesOut ==
  /\ pc = "polling"
  /\ now >= wakeAt
  /\ FdEvents = {}
  /\ Return("OnTimeout")
  /\ UNCHANGED <<env, wire, room, faults>>

PollInterrupted ==
  /\ pc = "polling"
  /\ Fault
  /\ Continue
  /\ UNCHANGED <<nBytesWritten, env, wire, room>>

PollFails ==
  /\ pc = "polling"
  /\ Fault
  /\ Return("OnSystemError")
  /\ UNCHANGED <<env, wire, room>>

Writable == pc = "polled" /\ "OUT" \in revents

\* Mutant: every write() starts again at the first byte of `from`.
WriteSomeFromStart ==
  /\ Writable /\ ~Gone
  /\ \E x \in 1..(Size - nBytesWritten) :
       /\ x =< room
       /\ wire' = wire \o [i \in 1..x |-> i]
       /\ nBytesWritten' = nBytesWritten + x
       /\ room' = room - x
  /\ Continue
  /\ UNCHANGED <<env, faults>>

\* write() takes x > 0 bytes, anything up to what is left and what fits.
WriteSome ==
  /\ Writable /\ ~Gone
  /\ \E x \in 1..(Size - nBytesWritten) :
       /\ x =< room
       /\ wire' = wire \o [i \in 1..x |-> nBytesWritten + i]
       /\ nBytesWritten' = nBytesWritten + x
       /\ room' = room - x
  /\ Continue
  /\ UNCHANGED <<env, faults>>

\* EAGAIN when there is no room after all, EINTR at any time.
WriteAgain ==
  /\ Writable
  /\ \/ room = 0 /\ ~Gone /\ UNCHANGED faults
     \/ Fault
  /\ Continue
  /\ UNCHANGED <<nBytesWritten, env, wire, room>>

\* Mutant: EPIPE and ECONNRESET are retried like EAGAIN.
WriteFailsRetried ==
  /\ Writable /\ Gone
  /\ Continue
  /\ UNCHANGED <<nBytesWritten, env, wire, room, faults>>

\* EPIPE or ECONNRESET, or the SIGPIPE that comes with EPIPE.
WriteFails ==
  /\ Writable /\ Gone
  /\ \/ Return("OnSystemError")
     \/ pc' = "killed" /\ UNCHANGED writer
  /\ UNCHANGED <<env, wire, room, faults>>

\* POLLERR, POLLHUP or POLLNVAL, looked at only when there is no POLLOUT.
Hangup ==
  /\ pc = "polled"
  /\ "OUT" \notin revents
  /\ Return(IF revents = {"NVAL"} THEN "OnSystemError" ELSE "OnPollerrOrPollhup")
  /\ UNCHANGED <<env, wire, room, faults>>

WriterStep ==
  \/ LoopTest \/ PollReady \/ PollTimesOut
  \/ WriteSome \/ WriteAgain \/ WriteFails \/ Hangup

KernelFault == PollSpurious \/ PollInterrupted \/ PollFails

---------------------------------------------------------------------------
(* The peer and the clock.                                                 *)

Running == pc \notin {"done", "killed"}

PeerReads ==
  /\ Running
  /\ kind \in {"pipe", "socket"} /\ peer = "open" /\ room < Capacity
  /\ room' = room + 1
  /\ UNCHANGED <<pc, writer, env, wire, faults>>

\* An orderly close, or on a socket a reset, which may also follow the close.
PeerLeaves ==
  /\ Running
  /\ \/ kind \in {"pipe", "socket"} /\ peer = "open" /\ peer' = "closed"
     \/ kind = "socket" /\ peer # "reset" /\ peer' = "reset"
  /\ UNCHANGED <<pc, writer, kind, now, wire, room, faults>>

Tick ==
  /\ Running
  /\ now < MaxNow \/ (pc = "polling" /\ now < wakeAt)
  /\ now' = now + 1
  /\ UNCHANGED <<pc, writer, kind, peer, wire, room, faults>>

---------------------------------------------------------------------------

Init ==
  /\ pc = "loop"
  /\ nBytesWritten = 0
  /\ remaining = Timeout /\ wakeAt = 0
  /\ revents = {} /\ outcome = "none"
  /\ kind \in {"pipe", "socket", "notOpen", "negative"}
  /\ peer = "open" /\ wire = <<>>
  /\ room \in 0..Capacity
  /\ now = 0 /\ faults = MaxFaults

Next == WriterStep \/ KernelFault \/ PeerReads \/ PeerLeaves \/ Tick

\* The writer's thread is scheduled; a call that is ready to return returns.
Spec == Init /\ [][Next]_vars /\ WF_vars(WriterStep)

---------------------------------------------------------------------------
(* Properties.                                                             *)

Events == {"OUT", "ERR", "HUP", "NVAL"}

\* Every variable has its type.
TypeOK ==
  /\ pc \in {"loop", "polling", "polled", "done", "killed"}
  /\ nBytesWritten \in 0..Size
  /\ remaining \in 0..Timeout /\ wakeAt \in Nat
  /\ revents \in SUBSET Events
  /\ outcome \in WriteFailures \cup {"none", "OnSuccess"}
  /\ kind \in {"pipe", "socket", "notOpen", "negative"}
  /\ peer \in {"open", "closed", "reset"}
  /\ wire \in Seq(Nat) /\ room \in 0..Capacity
  /\ now \in Nat /\ faults \in Nat

\* Whatever the short writes, retries and faults, the kernel was given a
\* prefix of the buffer, each byte once and in order, and NumBytesWritten is
\* its length, also when the call fails half way.
WireExact ==
  /\ Len(wire) = nBytesWritten
  /\ \A i \in 1..nBytesWritten : wire[i] = i

\* OnTimeout is never returned before the whole timeout has passed.
NoEarlyTimeout == outcome = "OnTimeout" => now >= Timeout * TicksPerMs

\* The call implements the one-shot transfer the header promises.
Promise == INSTANCE Transfer WITH moved <- nBytesWritten, Failures <- WriteFailures
KeepsPromise == Promise!Spec

\* If time passes, every call ends: a peer that never reads costs at most the
\* timeout, one that is gone is not written to again and again.
Returns == WF_vars(Tick) => <>~Running

=============================================================================
