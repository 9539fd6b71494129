--------------------------- MODULE RobustSyncRead ---------------------------
(***************************************************************************)
(* RobustSyncRead (utils/robust_read_write): reads exactly Size bytes from *)
(* a non-blocking descriptor with poll() and read(), until the buffer is   *)
(* full, the timeout passes, another thread signals the cancellation       *)
(* descriptor, or the peer goes away.                                      *)
(*                                                                         *)
(* Three actors run concurrently with the reader: the peer that writes,    *)
(* closes or resets the stream, the thread that cancels, and the clock.    *)
(* poll() reports a snapshot (revents); anything may happen between that   *)
(* snapshot and the read() or the return it leads to.                      *)
(*                                                                         *)
(* Bytes are named by their position in the peer's stream, 1, 2, 3...      *)
(***************************************************************************)
EXTENDS Timer, FiniteSets

CONSTANTS Size,       \* to.size()
          Timeout,    \* in milliseconds
          StreamLen,  \* bound: bytes the peer may write
          MaxFaults,  \* bound: interrupted calls and spurious wake-ups
          MaxNow      \* bound: ticks during one call, the waits in poll() apart

ASSUME ReadAssumption ==
  /\ Size \in Nat /\ Timeout \in Nat /\ StreamLen \in Nat
  /\ MaxFaults \in Nat /\ MaxNow \in Nat
  /\ Timeout =< MaxInt  \* so that poll() waits for what is left

VARIABLES
  pc,          \* "loop": at the test of the for; "polling": inside poll();
               \* "polled": poll() reported something; "done": returned
  nBytesRead,
  to,          \* the caller's buffer, 0 where nothing was stored
  remaining,   \* remainingTime, in milliseconds
  wakeAt,      \* clock reading at which the pending poll() gives up
  revents,     \* what the last poll() reported for the two descriptors
  outcome,     \* alternative of the returned variant
  kind,        \* what `fd` is
  peer,        \* the other end of `fd`
  sent,        \* bytes the peer wrote
  taken,       \* bytes read() removed from the descriptor
  cancel,      \* the cancellation descriptor; "none" when not passed
  now,         \* clock
  faults       \* faults the kernel may still produce

reader == <<nBytesRead, to, remaining, wakeAt, revents, outcome>>
env    == <<kind, peer, sent, cancel, now>>
vars   == <<pc, reader, env, taken, faults>>

ReadFailures == {"OnCancellation", "OnPrematureEof", "OnSystemError",
                 "OnTimeout", "OnPollerrOrPollhup"}

---------------------------------------------------------------------------
(* What poll() reports of each descriptor in the present state.            *)

FdEvents ==
  CASE kind = "pipe"     -> (IF taken < sent THEN {"IN"} ELSE {})
                            \cup (IF peer = "closed" THEN {"HUP"} ELSE {})
    [] kind = "socket"   -> (IF taken < sent \/ peer # "open" THEN {"IN"} ELSE {})
                            \cup (IF peer = "reset" THEN {"ERR", "HUP"} ELSE {})
    [] kind = "notOpen"  -> {"NVAL"}
    [] kind = "negative" -> {}   \* poll() skips a negative descriptor

\* Mutant: nfds is 1, so the cancellation descriptor is never watched.
CancelEventsUnwatched == {}

\* Without a cancellation descriptor nfds is 1 and nothing is reported.
CancelEvents ==
  CASE cancel \in {"none", "quiet"} -> {}
    [] cancel = "signalled"         -> {"IN"}
    [] cancel = "broken"            -> {"HUP"}

---------------------------------------------------------------------------
(* Steps of the reader.                                                    *)

Return(result) ==
  /\ pc' = "done"
  /\ outcome' = result
  /\ UNCHANGED <<nBytesRead, to, remaining, wakeAt, revents>>

\* `continue` and the end of the body both run the increment of the for.
Continue ==
  /\ pc' = "loop"
  /\ remaining' = CalcRemainingTime(Timeout, now)
  /\ UNCHANGED <<wakeAt, revents, outcome>>

Fault == faults > 0 /\ faults' = faults - 1

\* Mutant: the loop stops one byte before the buffer is full.
LoopTestShort ==
  /\ pc = "loop"
  /\ IF nBytesRead + 1 >= Size
     THEN Return("OnSuccess")
     ELSE /\ pc' = "polling"
          /\ wakeAt' = now + remaining * TicksPerMs
          /\ UNCHANGED <<nBytesRead, to, remaining, revents, outcome>>
  /\ UNCHANGED <<env, taken, faults>>

\* The condition of the for: return, or enter poll() with the time left.
LoopTest ==
  /\ pc = "loop"
  /\ IF nBytesRead = Size
     THEN Return("OnSuccess")
     ELSE /\ pc' = "polling"
          /\ wakeAt' = now + remaining * TicksPerMs
          /\ UNCHANGED <<nBytesRead, to, remaining, revents, outcome>>
  /\ UNCHANGED <<env, taken, faults>>

PollReady ==
  /\ pc = "polling"
  /\ FdEvents \cup CancelEvents # {}
  /\ revents' = [fd |-> FdEvents, cancel |-> CancelEvents]
  /\ pc' = "polled"
  /\ UNCHANGED <<nBytesRead, to, remaining, wakeAt, outcome, env, taken, faults>>

\* poll() reports input that is not there (the case of the comment in the code).
PollSpurious ==
  /\ pc = "polling"
  /\ kind \in {"pipe", "socket"}
  /\ Fault
  /\ revents' = [fd |-> {"IN"}, cancel |-> CancelEvents]
  /\ pc' = "polled"
  /\ UNCHANGED <<nBytesRead, to, remaining, wakeAt, outcome, env, taken>>

PollTimesOut ==
  /\ pc = "polling"
  /\ now >= wakeAt
  /\ FdEvents \cup CancelEvents = {}
  /\ Return("OnTimeout")
  /\ UNCHANGED <<env, taken, faults>>

PollInterrupted ==
  /\ pc = "polling"
  /\ Fault
  /\ Continue
  /\ UNCHANGED <<nBytesRead, to, env, taken>>

PollFails ==
  /\ pc = "polling"
  /\ Fault
  /\ Return("OnSystemError")
  /\ UNCHANGED <<env, taken>>

Readable == pc = "polled" /\ "IN" \in revents.fd

\* Mutant: read() stores at the start of `to` instead of &to[nBytesRead].
ReadSomeAtStart ==
  /\ Readable
  /\ \E x \in 1..(Size - nBytesRead) :
       /\ taken + x =< sent
       /\ to' = [i \in 1..Size |-> IF i \in 1..x THEN taken + i ELSE to[i]]
       /\ nBytesRead' = nBytesRead + x
       /\ taken' = taken + x
  /\ Continue
  /\ UNCHANGED <<env, faults>>

\* read() returns x > 0, anything up to what was asked for and is there.
ReadSome ==
  /\ Readable
  /\ \E x \in 1..(Size - nBytesRead) :
       /\ taken + x =< sent
       /\ to' = [i \in 1..Size |->
                   IF i \in (nBytesRead + 1)..(nBytesRead + x)
                   THEN taken + (i - nBytesRead) ELSE to[i]]
       /\ nBytesRead' = nBytesRead + x
       /\ taken' = taken + x
  /\ Continue
  /\ UNCHANGED <<env, faults>>

\* EAGAIN when nothing is there after all, EINTR at any time.
ReadAgain ==
  /\ Readable
  /\ \/ taken = sent /\ peer = "open" /\ UNCHANGED faults
     \/ Fault
  /\ Continue
  /\ UNCHANGED <<nBytesRead, to, env, taken>>

\* Mutant: a read of 0 bytes is added to nBytesRead like any other.
ReadEofIgnored ==
  /\ Readable
  /\ taken = sent /\ peer = "closed"
  /\ Continue
  /\ UNCHANGED <<nBytesRead, to, env, taken, faults>>

ReadEof ==
  /\ Readable
  /\ taken = sent /\ peer = "closed"
  /\ Return("OnPrematureEof")
  /\ UNCHANGED <<env, taken, faults>>

ReadFails ==
  /\ Readable
  /\ peer = "reset"
  /\ Return("OnSystemError")
  /\ UNCHANGED <<env, taken, faults>>

\* Mutant: the hang-up is looked at before the data that came before it.
HangupFirst ==
  /\ pc = "polled"
  /\ revents.fd \cap {"ERR", "HUP", "NVAL"} # {}
  /\ Return(IF revents.fd = {"NVAL"} THEN "OnSystemError" ELSE "OnPollerrOrPollhup")
  /\ UNCHANGED <<env, taken, faults>>

\* POLLERR, POLLHUP or POLLNVAL, looked at only when there is no POLLIN.
Hangup ==
  /\ pc = "polled"
  /\ "IN" \notin revents.fd
  /\ revents.fd \cap {"ERR", "HUP", "NVAL"} # {}
  /\ Return(IF revents.fd = {"NVAL"} THEN "OnSystemError" ELSE "OnPollerrOrPollhup")
  /\ UNCHANGED <<env, taken, faults>>

\* The cancellation descriptor comes last; nothing is read from it.
Cancelled ==
  /\ pc = "polled"
  /\ revents.fd = {}
  /\ Return(IF "IN" \in revents.cancel THEN "OnCancellation" ELSE "OnSystemError")
  /\ UNCHANGED <<env, taken, faults>>

ReaderStep ==
  \/ LoopTest \/ PollReady \/ PollTimesOut
  \/ ReadSome \/ ReadAgain \/ ReadEof \/ ReadFails
  \/ Hangup \/ Cancelled

KernelFault == PollSpurious \/ PollInterrupted \/ PollFails

---------------------------------------------------------------------------
(* The peer, the cancelling thread and the clock.                          *)

Running == pc # "done"

PeerWrites ==
  /\ Running
  /\ kind \in {"pipe", "socket"} /\ peer = "open" /\ sent < StreamLen
  /\ sent' = sent + 1
  /\ UNCHANGED <<pc, reader, kind, peer, cancel, now, taken, faults>>

\* An orderly close, or on a socket a reset, which may also follow the close.
PeerLeaves ==
  /\ Running
  /\ \/ kind \in {"pipe", "socket"} /\ peer = "open" /\ peer' = "closed"
     \/ kind = "socket" /\ peer # "reset" /\ peer' = "reset"
  /\ UNCHANGED <<pc, reader, kind, sent, cancel, now, taken, faults>>

\* A byte for the cancellation pipe, or the loss of its writer.
Cancel ==
  /\ Running
  /\ cancel = "quiet"
  /\ cancel' \in {"signalled", "broken"}
  /\ UNCHANGED <<pc, reader, kind, peer, sent, now, taken, faults>>

Tick ==
  /\ Running
  /\ now < MaxNow \/ (pc = "polling" /\ now < wakeAt)
  /\ now' = now + 1
  /\ UNCHANGED <<pc, reader, kind, peer, sent, cancel, taken, faults>>

---------------------------------------------------------------------------

Init ==
  /\ pc = "loop"
  /\ nBytesRead = 0 /\ to = [i \in 1..Size |-> 0]
  /\ remaining = Timeout /\ wakeAt = 0
  /\ revents = [fd |-> {}, cancel |-> {}]
  /\ outcome = "none"
  /\ kind \in {"pipe", "socket", "notOpen", "negative"}
  /\ peer = "open" /\ sent = 0 /\ taken = 0
  /\ cancel \in {"none", "quiet"}
  /\ now = 0 /\ faults = MaxFaults

Next ==
  \/ ReaderStep \/ KernelFault
  \/ PeerWrites \/ PeerLeaves \/ Cancel \/ Tick

\* The reader's thread is scheduled; a call that is ready to return returns.
Spec == Init /\ [][Next]_vars /\ WF_vars(ReaderStep)

---------------------------------------------------------------------------
(* Properties.                                                             *)

Events == {"IN", "ERR", "HUP", "NVAL"}

\* Every variable has its type.
TypeOK ==
  /\ pc \in {"loop", "polling", "polled", "done"}
  /\ nBytesRead \in 0..Size
  /\ to \in [1..Size -> Nat]
  /\ remaining \in 0..Timeout
  /\ wakeAt \in Nat
  /\ revents \in [fd : SUBSET Events, cancel : SUBSET Events]
  /\ outcome \in ReadFailures \cup {"none", "OnSuccess"}
  /\ kind \in {"pipe", "socket", "notOpen", "negative"}
  /\ peer \in {"open", "closed", "reset"}
  /\ sent \in Nat /\ taken \in Nat /\ taken =< sent
  /\ cancel \in {"none", "quiet", "signalled", "broken"}
  /\ now \in Nat /\ faults \in Nat

\* Whatever the splits, retries and faults, NumBytesRead counts exactly the
\* bytes taken from the descriptor, and the buffer holds them in order with
\* nothing beyond: the next message on the stream is left untouched.
ExactPrefix ==
  /\ taken = nBytesRead
  /\ \A i \in 1..Size : to[i] = IF i =< nBytesRead THEN i ELSE 0

\* A hang-up or an end of file is reported only once every byte the peer
\* wrote before it has been delivered (TestHangup in unit_tests.cpp).
DrainedBeforeEnd ==
  outcome = "OnPrematureEof" \/ (outcome = "OnPollerrOrPollhup" /\ kind = "pipe")
    => peer = "closed" /\ nBytesRead = sent

\* OnTimeout is never returned before the whole timeout has passed, however
\* many times poll() was restarted with a rounded remainder.
NoEarlyTimeout == outcome = "OnTimeout" => now >= Timeout * TicksPerMs

\* The call implements the one-shot transfer the header promises.
Promise == INSTANCE Transfer WITH moved <- nBytesRead, Failures <- ReadFailures
KeepsPromise == Promise!Spec

\* Once the cancelling thread has signalled, the call returns without help
\* from the clock or from the peer, although pending data is served first.
CancelUnblocks == cancel = "signalled" ~> pc = "done"

\* If time passes, every call returns: no retry or wake-up keeps it for ever.
Returns == WF_vars(Tick) => <>(pc = "done")

=============================================================================
